---- MODULE Spec2Model ----
(***************************************************************************)
(* Rubric evaluation engine (class ScoringEngine): scoreAgreement and      *)
(* redactResult, as a state machine over the caller's facts record, the    *)
(* module-level rubric `metrics`, the ScoringResult the engine returned    *)
(* and the redacted view made from it.                                     *)
(*                                                                         *)
(* Numbers: rule scores, weights and adjustments are integers.  A quotient *)
(* the code computes in floating point is kept exact as a pair             *)
(* [num, den]; Math.round is taken on the exact quotient.                  *)
(***************************************************************************)
EXTENDS Integers, Sequences, FiniteSets, TLC

VARIABLES
    metrics,     \* the module-level rubric configuration (const metrics)
    input,       \* the facts record the caller holds
    facts,       \* argument of the latest scoreAgreement invocation
    outcome,     \* "none" | "returned" | "threw": how that invocation ended
    result,      \* the ScoringResult object the latest invocation returned
    returned,    \* the value of that object at the moment it was returned
    audit,       \* the values that invocation computed before snapping
    refResult,   \* <<r>>: r is what the first invocation on `input` returned
    phase,       \* "between": another record was scored after that invocation;
                 \* "again": `input` has just been scored again after that
    view,        \* <<v>>: v is what redactResult last returned
    subscription,\* the Subscription row of the user, or its absence
    usageLog,    \* number of UsageLog rows of type file_analysis of the user
    reviews,     \* contents of the Review rows of the user's file, oldest first
    requests,    \* the analyze requests in flight: position and local variables
    response,    \* the latest response sent by a controller
    now,         \* the time new Date() gives
    stripe       \* Stripe's side of the subscription: the end of the current
                 \* billing period and the webhook events not yet delivered

engineVars == <<metrics, input, facts, outcome, result, returned, audit, refResult, phase, view>>

clockVars == <<now, stripe>>

webVars == <<subscription, usageLog, reviews, requests, response, now, stripe>>

vars == <<metrics, input, facts, outcome, result, returned, audit, refResult, phase, view,
          subscription, usageLog, reviews, requests, response, now, stripe>>

(***************************************************************************)
(* JavaScript values of a facts field.                                     *)
(***************************************************************************)
JsUndefined == [t |-> "undefined", n |-> 0, s |-> ""]
JsNull == [t |-> "null", n |-> 0, s |-> ""]
Num(x) == [t |-> "number", n |-> x, s |-> ""]
Str(x) == [t |-> "string", n |-> 0, s |-> x]
JsTrue == [t |-> "boolean", n |-> 1, s |-> ""]

NoFacts == "no facts"
NoResult == "no result"
NoAudit == "no audit"
NoResponse == [endpoint |-> "none", status |-> 0, body |-> <<>>]
NoStripe == [current_period_end |-> 0, events |-> {}]
NoComponent == "(no component)"
Infinity == -1      \* stands for an absent range.max / tier max (?? POSITIVE_INFINITY)

(***************************************************************************)
(* ExtractedFacts: every field may be absent (undefined), null or set.     *)
(***************************************************************************)
FdvValues == {JsNull, Num(500)}
ExchangeValues == {JsNull, Str("Binance")}
ClawbackValues == {JsNull, Str("strong"), Str("weak")}
NoticeValues == {JsUndefined, JsNull, Num(45), Num(200)}
WindDownValues == {JsUndefined, JsTrue}

FactKeys == {"fdv", "exchange", "clawback", "noticePeriodDays", "windDownDefined"}

FactsRecords ==
    [fdv : FdvValues, exchange : ExchangeValues, clawback : ClawbackValues,
     noticePeriodDays : NoticeValues, windDownDefined : WindDownValues]

\* facts[key] / facts.key: an absent property reads as undefined
Get(f, key) == IF key \in DOMAIN f THEN f[key] ELSE JsUndefined

(***************************************************************************)
(* Conditions.  A rubric condition is the text of a JavaScript expression  *)
(* over `facts`, run by new Function("facts", "return " + condition).      *)
(* The expressions of the rubric are kept by shape:                        *)
(*   eq        facts.<field> === <val>                                     *)
(*   neq       facts.<field> !== <val>                                     *)
(*   gt        facts.<field> > <val.n>                                     *)
(*   true      true                                                        *)
(*   deref     facts.<field>.length > 0   (TypeError on undefined / null)  *)
(*   malformed text that is no expression (SyntaxError)                    *)
(***************************************************************************)
NoCondition == [kind |-> "none", field |-> "", val |-> JsUndefined]
CondEq(field, v) == [kind |-> "eq", field |-> field, val |-> v]
CondNeq(field, v) == [kind |-> "neq", field |-> field, val |-> v]
CondGt(field, x) == [kind |-> "gt", field |-> field, val |-> Num(x)]
CondTrue == [kind |-> "true", field |-> "", val |-> JsUndefined]
CondDeref(field) == [kind |-> "deref", field |-> field, val |-> JsUndefined]
CondMalformed == [kind |-> "malformed", field |-> "", val |-> JsUndefined]

\* ToNumber(v) for a relational comparison; NaN is reported as notNumber
ToNumber(v) ==
    CASE v.t = "number" -> [nan |-> FALSE, n |-> v.n]
      [] v.t = "null" -> [nan |-> FALSE, n |-> 0]
      [] v.t = "boolean" -> [nan |-> FALSE, n |-> v.n]
      [] OTHER -> [nan |-> TRUE, n |-> 0]

\* v <= bound, bound a number or Infinity
JsLeq(v, bound) ==
    LET x == ToNumber(v)
    IN  /\ ~x.nan
        /\ (bound = Infinity \/ x.n <= bound)

\* what running the expression does: "true", "false" or "throw"
RunExpression(condition, f) ==
    LET v == Get(f, condition.field)
    IN  CASE condition.kind = "eq" -> IF v = condition.val THEN "true" ELSE "false"
          [] condition.kind = "neq" -> IF v # condition.val THEN "true" ELSE "false"
          [] condition.kind = "gt" ->
                IF ~ToNumber(v).nan /\ ToNumber(v).n > condition.val.n
                THEN "true" ELSE "false"
          [] condition.kind = "true" -> "true"
          [] condition.kind = "deref" ->
                IF v.t \in {"undefined", "null"} THEN "throw"
                ELSE IF v.t = "string" /\ v.s # "" THEN "true" ELSE "false"
          [] OTHER -> "throw"

\* a mutant of evaluateCondition without the try/catch: the error escapes
evaluateConditionNoCatch(condition, f) ==
    [value |-> RunExpression(condition, f) = "true",
     threw |-> RunExpression(condition, f) = "throw"]

\* a mutant of evaluateCondition whose catch returns true (fails open)
evaluateConditionFailOpen(condition, f) ==
    [value |-> RunExpression(condition, f) # "false", threw |-> FALSE]

\* evaluateCondition: the value returned, and whether an exception left the call
evaluateCondition(condition, f) ==
    [value |-> RunExpression(condition, f) = "true", threw |-> FALSE]

(***************************************************************************)
(* Rubric configuration (interfaces ScoringRule, Component, Metric, ...).  *)
(* An optional field that is absent holds the value the code reads as      *)
(* absent: score 0, autoDowngrade 0, tier "", description "", ranges <<>>, *)
(* finding <<>>, condition NoCondition.                                    *)
(***************************************************************************)
FindingTemplate(severity, title, description, recommendation) ==
    [severity |-> severity, title |-> title, description |-> description,
     recommendation |-> recommendation]

ConditionRule(condition, score, description, autoDowngrade, finding) ==
    [condition |-> condition, score |-> score, description |-> description,
     autoDowngrade |-> autoDowngrade, tier |-> "", ranges |-> <<>>,
     finding |-> finding]

Range(max, score, autoDowngrade) ==
    [max |-> max, score |-> score, autoDowngrade |-> autoDowngrade]

TieredRule(tier, ranges) ==
    [condition |-> NoCondition, score |-> 0, description |-> "",
     autoDowngrade |-> 0, tier |-> tier, ranges |-> ranges, finding |-> <<>>]

NoWeight == 0       \* an absent weight (read as weight ?? 1)
Weight(w) == IF w = NoWeight THEN 1 ELSE w

Component(id, name, weight, scoring) ==
    [id |-> id, name |-> name, weight |-> weight, scoring |-> scoring]

Metric(id, name, weight, fdvDependent, exchangeDependent, components, scoring) ==
    [id |-> id, name |-> name, weight |-> weight, fdvDependent |-> fdvDependent,
     exchangeDependent |-> exchangeDependent, components |-> components,
     scoring |-> scoring]

(***************************************************************************)
(* The rubrics the engine is run with.  The rules a rubric author may put  *)
(* in the list under study: a specific condition, a catch-all, a negated   *)
(* condition, a condition that throws on an unknown governing fact, and a  *)
(* tiered range table.                                                     *)
(***************************************************************************)
MaxRules == 2

SpecificRule ==
    ConditionRule(CondEq("noticePeriodDays", Num(45)), 8, "Standard notice period", 0,
        <<FindingTemplate("Low", "Standard notice period",
            "Notice period of 45 days is market standard.",
            "Keep the notice period as drafted.")>>)

CatchAllRule ==
    ConditionRule(CondTrue, 3, "Non-standard notice period", 1,
        <<FindingTemplate("Medium", "Non-standard notice period",
            "Notice period departs from the market standard.",
            "Negotiate a 30 to 60 day notice period.")>>)

NegatedRule ==
    ConditionRule(CondNeq("noticePeriodDays", Num(45)), 1, "Notice period is not 45 days",
        0, <<>>)

ThrowingRule ==
    ConditionRule(CondDeref("noticePeriodDays"), 20, "Notice period text present", 0,
        <<FindingTemplate("High", "Notice period text",
            "Notice period is given as free text.",
            "Replace the free text by a day count.")>>)

MicroCapRule == TieredRule("MicroCap", <<Range(60, 10, 0), Range(120, 4, 1)>>)

RuleAlphabet == {SpecificRule, CatchAllRule, NegatedRule, ThrowingRule, MicroCapRule}

ScoringLists == UNION {[1..k -> RuleAlphabet] : k \in 1..MaxRules}

ClawbackScoring ==
    <<ConditionRule(CondEq("clawback", Str("strong")), 15, "", 0,
        <<FindingTemplate("Low", "Clawback in place",
            "Clawback is tied to performance milestones.",
            "Keep the notice period as drafted.")>>),
      ConditionRule(CondEq("clawback", Str("weak")), 5, "Clawback is weak", 0, <<>>)>>

ExchangeScoring == <<TieredRule("Tier1", <<Range(Infinity, 5, 0)>>)>>

Rubric(scoring) ==
    [fdvTiers |->
        <<[id |-> "MicroCap", min |-> 0, max |-> 50, label |-> "Micro Cap (<$50M)"],
          [id |-> "SmallCap", min |-> 51, max |-> 200, label |-> "Small Cap"],
          [id |-> "LargeCap", min |-> 201, max |-> Infinity, label |-> "Large Cap"]>>,
     exchangeTiers |->
        <<[id |-> "Tier1", exchanges |-> {"Binance", "Coinbase"}, label |-> "Tier 1"],
          [id |-> "Tier2", exchanges |-> {"KuCoin"}, label |-> "Tier 2"],
          [id |-> "Tier3", exchanges |-> {}, label |-> "Tier 3"]>>,
     metrics |->
        <<Metric("agreementStructure", "Agreement Structure", 2, TRUE, FALSE,
            <<Component("noticePeriodDays", "Notice Period", 2, scoring),
              Component("clawback", "Clawback", NoWeight, ClawbackScoring)>>, <<>>),
          Metric("noticePeriodDaysTerms", "Notice Terms", 2, FALSE, FALSE, <<>>, scoring),
          Metric("liquidity", "Liquidity", NoWeight, FALSE, TRUE,
            <<Component("exchange", "Exchange", NoWeight, ExchangeScoring)>>, <<>>)>>,
     ratingScale |->
        <<[min |-> 80, grade |-> "A", description |-> "Excellent"],
          [min |-> 60, grade |-> "B", description |-> "Good"],
          [min |-> 40, grade |-> "C", description |-> "Fair"],
          [min |-> 0, grade |-> "D", description |-> "Poor"]>>,
     autoDowngrades |->
        <<[condition |-> CondGt("noticePeriodDays", 180), adjustment |-> -15,
           finding |-> <<FindingTemplate("High", "Excessive notice period",
               "Notice period exceeds 180 days.",
               "Negotiate a 30 to 60 day notice period.")>>],
          [condition |-> CondMalformed, adjustment |-> -50, finding |-> <<>>],
          [condition |-> CondEq("clawback", Str("strong")), adjustment |-> 30,
           finding |-> <<>>]>>,
     redFlags |->
        [critical |->
            <<[condition |-> CondEq("clawback", Str("weak")),
               description |-> "Clawback cannot be enforced"],
              [condition |-> CondMalformed, description |-> "Unlimited liability"]>>,
         major |->
            <<[condition |-> CondGt("noticePeriodDays", 180),
               description |-> "Notice period above 180 days"]>>]]

Rubrics == {Rubric(scoring) : scoring \in ScoringLists}

\* metric.id.includes(key), for the ids of the rubrics and the keys of a facts record
IdIncludes(id, key) == <<id, key>> \in {<<"noticePeriodDaysTerms", "noticePeriodDays">>}

(***************************************************************************)
(* The engine.  Every operator below takes the rubric from the variable    *)
(* `metrics`, as the methods of ScoringEngine take it from the module.     *)
(***************************************************************************)
Max2(a, b) == IF a >= b THEN a ELSE b

RECURSIVE MaxOver(_, _)
\* Math.max(m, ...scores)
MaxOver(m, scores) ==
    IF scores = <<>> THEN m ELSE MaxOver(Max2(m, Head(scores)), Tail(scores))

RECURSIVE Concat(_)
\* the concatenation of a sequence of sequences
Concat(ss) == IF ss = <<>> THEN <<>> ELSE Head(ss) \o Concat(Tail(ss))

RECURSIVE FirstIndex(_, _, _)
\* the least i in from..Len(s) with s[i] in the set `hits`, or 0
FirstIndex(s, hits, from) ==
    IF from > Len(s) THEN 0
    ELSE IF s[from] \in hits THEN from
    ELSE FirstIndex(s, hits, from + 1)

\* metrics.fdvTiers["MicroCap"]?.label || "Micro Cap", and the same for Tier3
TierLabelOr(tiers, id, fallback) ==
    LET hit == {i \in 1..Len(tiers) : tiers[i].id = id}
    IN  IF hit = {} THEN fallback
        ELSE LET label == tiers[CHOOSE i \in hit : TRUE].label
             IN  IF label = "" THEN fallback ELSE label

getTier(fdv) ==
    LET tiers == metrics.fdvTiers
        lowest == [tier |-> "MicroCap", label |-> TierLabelOr(tiers, "MicroCap", "Micro Cap")]
        x == ToNumber(fdv)
        inTier == {i \in 1..Len(tiers) :
                      /\ ~x.nan
                      /\ x.n >= tiers[i].min
                      /\ (tiers[i].max = Infinity \/ x.n <= tiers[i].max)}
    IN  IF fdv.t \in {"null", "undefined"} THEN lowest
        ELSE IF inTier = {} THEN lowest
        ELSE LET i == CHOOSE j \in inTier : \A k \in inTier : j <= k
             IN  [tier |-> tiers[i].id, label |-> tiers[i].label]

\* !exchange
Falsy(v) ==
    \/ v.t \in {"undefined", "null"}
    \/ v.t = "string" /\ v.s = ""
    \/ v.t \in {"number", "boolean"} /\ v.n = 0

\* a mutant of getExchangeTier that falls back to the first configured tier
getExchangeTierFirst(exchange) ==
    LET tiers == metrics.exchangeTiers
        inTier == {i \in 1..Len(tiers) :
                      exchange.t = "string" /\ exchange.s \in tiers[i].exchanges}
    IN  IF Falsy(exchange) \/ inTier = {}
        THEN [tier |-> tiers[1].id, label |-> tiers[1].label]
        ELSE LET i == CHOOSE j \in inTier : \A k \in inTier : j <= k
             IN  [tier |-> tiers[i].id, label |-> tiers[i].label]

getExchangeTier(exchange) ==
    LET tiers == metrics.exchangeTiers
        lowest == [tier |-> "Tier3", label |-> TierLabelOr(tiers, "Tier3", "Tier 3")]
        inTier == {i \in 1..Len(tiers) :
                      exchange.t = "string" /\ exchange.s \in tiers[i].exchanges}
    IN  IF Falsy(exchange) THEN lowest
        ELSE IF inTier = {} THEN lowest
        ELSE LET i == CHOOSE j \in inTier : \A k \in inTier : j <= k
             IN  [tier |-> tiers[i].id, label |-> tiers[i].label]

createFinding(severity, category, title, description, recommendation, metric, component) ==
    [severity |-> severity, category |-> category, title |-> title,
     description |-> description, recommendation |-> recommendation,
     metric |-> metric, component |-> component]

\* a flag string: a fixed prefix and the text that follows it
Flag(prefix, text) == [prefix |-> prefix, text |-> text, about |-> NoCondition]

\* the flag of an applied auto-downgrade, which quotes the rule's condition
DowngradeFlag(condition) ==
    [prefix |-> "Auto-downgrade applied: ", text |-> "", about |-> condition]

\* a mutant of generateFindings whose 60-90 day band is rated Medium
generateFindingsSixtyMedium(f) ==
    LET notice == Get(f, "noticePeriodDays")
        n == ToNumber(notice)
        termination(severity, description, recommendation) ==
            <<createFinding(severity, "Termination Rights", "Market termination rights",
                description, recommendation, "agreementStructure", "termination")>>
        vesting(severity, title, description, recommendation) ==
            <<createFinding(severity, "Vesting Terms", title, description,
                recommendation, "tokenEconomics", "clawback")>>
        clawback == Get(f, "clawback")
    IN  (IF Get(f, "windDownDefined").t # "undefined" /\ notice.t # "undefined" /\ ~n.nan
         THEN CASE n.n >= 30 /\ n.n <= 60 ->
                    termination("Low",
                        "30-60 days notice with clear 7-30 day wind-down procedures.",
                        "Ensure wind-down procedures are well defined and practical.")
                [] n.n > 60 /\ n.n <= 90 ->
                    termination("Medium", "60-90 days notice with defined wind-down.",
                        "Maintain defined wind-down procedures for smooth transition.")
                [] n.n > 90 /\ n.n <= 120 ->
                    termination("Medium", "90-120 days notice with only basic wind-down.",
                        "Enhance wind-down details for clarity and fairness.")
                [] n.n > 120 /\ n.n <= 180 ->
                    termination("Medium", ">120 days notice but some procedures exist.",
                        "Consider shortening notice period while keeping procedures.")
                [] n.n > 180 ->
                    termination("High",
                        "Excessive notice periods (>180 days) or unclear procedures.",
                        "Revise termination terms to balance notice and wind-down procedures.")
                [] OTHER -> <<>>
         ELSE <<>>)
        \o
        (CASE clawback = Str("strong") ->
                vesting("Low", "Strong clawback provisions",
                    "Strong clawback provisions tied to performance milestones with automatic triggers.",
                    "Maintain robust clawback mechanisms to ensure accountability.")
           [] clawback = Str("moderate") ->
                vesting("Low", "Moderate clawback provisions",
                    "Moderate clawback provisions with clear triggers and enforcement mechanisms.",
                    "Ensure enforcement remains consistent and transparent.")
           [] clawback = Str("basic") ->
                vesting("Medium", "Basic clawback provisions",
                    "Basic clawback provisions with some performance requirements.",
                    "Enhance clawback provisions to include stronger performance-based triggers.")
           [] clawback = Str("weak") ->
                vesting("Medium", "Weak clawback provisions",
                    "Weak clawback mechanisms with limited enforcement.",
                    "Strengthen enforcement mechanisms and link clawback to performance milestones.")
           [] OTHER -> <<>>)

\* generateFindings: the findings it pushes, in order
generateFindings(f) ==
    LET notice == Get(f, "noticePeriodDays")
        n == ToNumber(notice)
        termination(severity, description, recommendation) ==
            <<createFinding(severity, "Termination Rights", "Market termination rights",
                description, recommendation, "agreementStructure", "termination")>>
        vesting(severity, title, description, recommendation) ==
            <<createFinding(severity, "Vesting Terms", title, description,
                recommendation, "tokenEconomics", "clawback")>>
        clawback == Get(f, "clawback")
    IN  (IF Get(f, "windDownDefined").t # "undefined" /\ notice.t # "undefined" /\ ~n.nan
         THEN CASE n.n >= 30 /\ n.n <= 60 ->
                    termination("Low",
                        "30-60 days notice with clear 7-30 day wind-down procedures.",
                        "Ensure wind-down procedures are well defined and practical.")
                [] n.n > 60 /\ n.n <= 90 ->
                    termination("Low", "60-90 days notice with defined wind-down.",
                        "Maintain defined wind-down procedures for smooth transition.")
                [] n.n > 90 /\ n.n <= 120 ->
                    termination("Medium", "90-120 days notice with only basic wind-down.",
                        "Enhance wind-down details for clarity and fairness.")
                [] n.n > 120 /\ n.n <= 180 ->
                    termination("Medium", ">120 days notice but some procedures exist.",
                        "Consider shortening notice period while keeping procedures.")
                [] n.n > 180 ->
                    termination("High",
                        "Excessive notice periods (>180 days) or unclear procedures.",
                        "Revise termination terms to balance notice and wind-down procedures.")
                [] OTHER -> <<>>
         ELSE <<>>)
        \o
        (CASE clawback = Str("strong") ->
                vesting("Low", "Strong clawback provisions",
                    "Strong clawback provisions tied to performance milestones with automatic triggers.",
                    "Maintain robust clawback mechanisms to ensure accountability.")
           [] clawback = Str("moderate") ->
                vesting("Low", "Moderate clawback provisions",
                    "Moderate clawback provisions with clear triggers and enforcement mechanisms.",
                    "Ensure enforcement remains consistent and transparent.")
           [] clawback = Str("basic") ->
                vesting("Medium", "Basic clawback provisions",
                    "Basic clawback provisions with some performance requirements.",
                    "Enhance clawback provisions to include stronger performance-based triggers.")
           [] clawback = Str("weak") ->
                vesting("Medium", "Weak clawback provisions",
                    "Weak clawback mechanisms with limited enforcement.",
                    "Strengthen enforcement mechanisms and link clawback to performance milestones.")
           [] OTHER -> <<>>)

RECURSIVE RedFlagList(_, _, _, _, _, _)
\* one list of red-flag rules: the findings and flags pushed, and whether a
\* condition evaluation threw
RedFlagList(rules, f, severity, category, title, advice) ==
    IF rules = <<>> THEN [findings |-> <<>>, flags |-> <<>>, threw |-> FALSE]
    ELSE LET flag == Head(rules)
             ev == evaluateCondition(flag.condition, f)
             rest == RedFlagList(Tail(rules), f, severity, category, title, advice)
         IN  IF ev.threw THEN [findings |-> <<>>, flags |-> <<>>, threw |-> TRUE]
             ELSE IF ev.value
             THEN [findings |->
                      <<createFinding(severity, category, title, flag.description, advice,
                            "redFlag", IF severity = "Critical" THEN "critical" ELSE "major")>>
                      \o rest.findings,
                   flags |-> <<Flag("", flag.description)>> \o rest.flags,
                   threw |-> rest.threw]
             ELSE rest

\* a mutant of processRedFlags that files the major rules as critical ones
processRedFlagsAllCritical(f) ==
    LET critical == RedFlagList(metrics.redFlags.critical \o metrics.redFlags.major, f,
                        "Critical", "Critical Red Flag", "Critical Issue Detected",
                        "Immediate attention required. This term is highly non-standard.")
    IN  [findings |-> critical.findings, flags |-> critical.flags, threw |-> critical.threw]

processRedFlags(f) ==
    LET critical == RedFlagList(metrics.redFlags.critical, f, "Critical",
                        "Critical Red Flag", "Critical Issue Detected",
                        "Immediate attention required. This term is highly non-standard.")
        major == RedFlagList(metrics.redFlags.major, f, "High",
                        "Major Red Flag", "Major Issue Detected",
                        "Strongly recommended to negotiate this term.")
    IN  [findings |-> critical.findings \o major.findings,
         flags |-> critical.flags \o major.flags,
         threw |-> critical.threw \/ major.threw]

\* a quotient a / b * 100 kept exact; 0 when b is not positive
Percent(a, b) == IF b > 0 THEN [num |-> 100 * a, den |-> b] ELSE [num |-> 0, den |-> 1]

\* Math.round of an exact quotient (den > 0): floor(q + 1/2)
Round(q) == (2 * q.num + q.den) \div (2 * q.den)

\* Math.round(max * 0.15) and Math.floor(max * 0.88)
Round15(max) == (30 * max + 100) \div 200
Floor88(max) == (88 * max) \div 100

\* a mutant of snapRounded whose lower comparisons are strict
snapRoundedStrict(roundedScore, max) ==
    CASE max = 100 ->
            IF roundedScore < 12 THEN 13 ELSE IF roundedScore >= 85 THEN 85 ELSE roundedScore
      [] max = 25 ->
            IF roundedScore < 5 THEN 6 ELSE IF roundedScore >= 17 THEN 17 ELSE roundedScore
      [] max = 20 ->
            IF roundedScore < 4 THEN 5 ELSE IF roundedScore >= 16 THEN 16 ELSE roundedScore
      [] max = 15 ->
            IF roundedScore < 3 THEN 4 ELSE IF roundedScore >= 10 THEN 10 ELSE roundedScore
      [] max = 10 ->
            IF roundedScore < 2 THEN 3 ELSE IF roundedScore >= 7 THEN 7 ELSE roundedScore
      [] max = 5 -> IF roundedScore < 2 THEN 2 ELSE 3
      [] OTHER ->
            IF roundedScore <= 0 THEN Max2(1, Round15(max))
            ELSE IF roundedScore >= max THEN Max2(1, Floor88(max))
            ELSE roundedScore

\* snapToDisplayScore on an already rounded score
snapRounded(roundedScore, max) ==
    CASE max = 100 ->
            IF roundedScore <= 12 THEN 13 ELSE IF roundedScore >= 85 THEN 85 ELSE roundedScore
      [] max = 25 ->
            IF roundedScore <= 5 THEN 6 ELSE IF roundedScore >= 17 THEN 17 ELSE roundedScore
      [] max = 20 ->
            IF roundedScore <= 4 THEN 5 ELSE IF roundedScore >= 16 THEN 16 ELSE roundedScore
      [] max = 15 ->
            IF roundedScore <= 3 THEN 4 ELSE IF roundedScore >= 10 THEN 10 ELSE roundedScore
      [] max = 10 ->
            IF roundedScore <= 2 THEN 3 ELSE IF roundedScore >= 7 THEN 7 ELSE roundedScore
      [] max = 5 -> IF roundedScore <= 2 THEN 2 ELSE 3
      [] OTHER ->
            IF roundedScore <= 0 THEN Max2(1, Round15(max))
            ELSE IF roundedScore >= max THEN Max2(1, Floor88(max))
            ELSE roundedScore

\* a mutant of snapToDisplayScore that returns the rounded score as it is
snapToDisplayScoreUnclamped(score, max) == Round(score)

\* snapToDisplayScore(score, max), score an exact quotient
snapToDisplayScore(score, max) == snapRounded(Round(score), max)

\* the component's maximum achievable points (first loop over component.scoring)
RECURSIVE maxComponentScore(_, _, _)
maxComponentScore(rules, relevantTier, m) ==
    IF rules = <<>> THEN m
    ELSE LET rule == Head(rules)
             next ==
                IF rule.ranges # <<>> /\ rule.tier # ""
                THEN IF relevantTier # "" /\ rule.tier = relevantTier
                     THEN MaxOver(m, [i \in 1..Len(rule.ranges) |-> rule.ranges[i].score])
                     ELSE m
                ELSE IF rule.score # 0 /\ rule.tier = ""
                     THEN Max2(m, rule.score)
                     ELSE m
         IN  maxComponentScore(Tail(rules), relevantTier, next)

\* the finding a matched rule pushes, if it has a template
RuleFinding(rule, metric, componentId) ==
    IF rule.finding = <<>> THEN <<>>
    ELSE <<createFinding(rule.finding[1].severity, metric.name, rule.finding[1].title,
                rule.finding[1].description, rule.finding[1].recommendation,
                metric.id, componentId)>>

NotApplied ==
    [score |-> 0, flags |-> <<>>, findings |-> <<>>, resultFlags |-> <<>>,
     applied |-> 0, threw |-> FALSE]

\* a mutant of the component rule loop without its break statements: every
\* matching rule overwrites the score and adds its flags and findings
RECURSIVE componentRulesNoBreak(_, _, _, _, _)
componentRulesNoBreak(metric, component, relevantTier, f, i) ==
    IF i > Len(component.scoring) THEN NotApplied
    ELSE LET rule == component.scoring[i]
             rest == componentRulesNoBreak(metric, component, relevantTier, f, i + 1)
             hit ==
                /\ rule.condition.kind # "none"
                /\ ~(rule.tier # "" /\ rule.ranges # <<>>)
                /\ evaluateCondition(rule.condition, f).value
         IN  IF ~hit THEN rest
             ELSE [score |-> IF rest.applied # 0 THEN rest.score ELSE rule.score,
                   flags |-> (IF rule.description # ""
                              THEN <<Flag("", rule.description)>> ELSE <<>>) \o rest.flags,
                   findings |-> RuleFinding(rule, metric, component.id) \o rest.findings,
                   resultFlags |-> rest.resultFlags,
                   applied |-> IF rest.applied # 0 THEN rest.applied ELSE i,
                   threw |-> FALSE]

\* the component rule loop from rule i on: the score set, the flags and findings
\* pushed, the index of the rule that set ruleApplied (0: none), and whether
\* a condition evaluation threw
RECURSIVE componentRules(_, _, _, _, _)
componentRules(metric, component, relevantTier, f, i) ==
    IF i > Len(component.scoring) THEN NotApplied
    ELSE LET rule == component.scoring[i]
             rest == componentRules(metric, component, relevantTier, f, i + 1)
             value == Get(f, component.id)
             range == FirstIndex([k \in 1..Len(rule.ranges) |-> JsLeq(value, rule.ranges[k].max)],
                                 {TRUE}, 1)
             ev == evaluateCondition(rule.condition, f)
         IN  IF rule.tier # "" /\ rule.ranges # <<>>
             THEN IF rule.tier # relevantTier THEN rest
                  ELSE IF value = JsNull
                  THEN [NotApplied EXCEPT
                            !.flags = <<Flag("Missing data: ", component.name)>>,
                            !.applied = i]
                  ELSE IF range # 0
                  THEN [NotApplied EXCEPT
                            !.score = rule.ranges[range].score,
                            !.resultFlags =
                                IF rule.ranges[range].autoDowngrade # 0
                                THEN <<Flag("Auto-downgrade applied for ", component.name)>>
                                ELSE <<>>,
                            !.applied = i]
                  ELSE rest
             ELSE IF rule.condition.kind = "none" THEN rest
             ELSE IF ev.threw THEN [NotApplied EXCEPT !.threw = TRUE]
             ELSE IF ev.value
             THEN [score |-> rule.score,
                   flags |-> IF rule.description # ""
                             THEN <<Flag("", rule.description)>> ELSE <<>>,
                   findings |-> RuleFinding(rule, metric, component.id),
                   resultFlags |->
                        IF rule.autoDowngrade # 0
                        THEN <<Flag("Auto-downgrade applied for ", component.name)>>
                        ELSE <<>>,
                   applied |-> i,
                   threw |-> FALSE]
             ELSE rest

\* a mutant of scoreComponent without the missing-data check after the rule loop
scoreComponentNoMissingCheck(metric, component, fdvTier, exchangeTier, f) ==
    LET relevantTier ==
            IF metric.fdvDependent THEN fdvTier
            ELSE IF metric.exchangeDependent THEN exchangeTier
            ELSE ""
        loop == componentRules(metric, component, relevantTier, f, 1)
    IN  [id |-> component.id,
         score |-> loop.score,
         maxPossible |-> maxComponentScore(component.scoring, relevantTier, 0),
         flags |-> loop.flags,
         findings |-> loop.findings,
         weight |-> Weight(component.weight),
         resultFlags |-> loop.resultFlags,
         applied |-> loop.applied,
         threw |-> loop.threw]

\* the rest of a pass over metric.components once the rule loop has ended with
\* `loop`: the missing-data check and what the pass records
afterComponentRules(component, f, maxScore, loop) ==
    LET missing == loop.applied = 0 /\ Get(f, component.id) = JsNull
    IN  [id |-> component.id,
         score |-> IF missing THEN 0 ELSE loop.score,
         maxPossible |-> maxScore,
         flags |-> IF missing
                   THEN loop.flags \o <<Flag("Missing data: ", component.name)>>
                   ELSE loop.flags,
         findings |-> loop.findings,
         weight |-> Weight(component.weight),
         resultFlags |-> loop.resultFlags,
         applied |-> loop.applied,
         threw |-> loop.threw]

\* one pass of the loop over metric.components: the ComponentScore stored in
\* the breakdown and what the pass adds to the metric and to the result
scoreComponent(metric, component, fdvTier, exchangeTier, f) ==
    LET relevantTier ==
            IF metric.fdvDependent THEN fdvTier
            ELSE IF metric.exchangeDependent THEN exchangeTier
            ELSE ""
    IN  afterComponentRules(component, f,
            maxComponentScore(component.scoring, relevantTier, 0),
            componentRules(metric, component, relevantTier, f, 1))

\* the loop over metric.scoring from rule i on, maxSoFar the running maxMetricScore
RECURSIVE flatRules(_, _, _, _)
flatRules(metric, f, i, maxSoFar) ==
    IF i > Len(metric.scoring)
    THEN [score |-> 0, max |-> maxSoFar, findings |-> <<>>, resultFlags |-> <<>>,
          recommendations |-> <<>>, applied |-> 0, threw |-> FALSE]
    ELSE LET rule == metric.scoring[i]
             ruleScore == rule.score
             maxMetricScore == Max2(maxSoFar, ruleScore)
             ev == evaluateCondition(rule.condition, f)
         IN  IF rule.condition.kind = "none"
             THEN flatRules(metric, f, i + 1, maxMetricScore)
             ELSE IF ev.threw
             THEN [score |-> 0, max |-> maxMetricScore, findings |-> <<>>,
                   resultFlags |-> <<>>, recommendations |-> <<>>, applied |-> 0,
                   threw |-> TRUE]
             ELSE IF ev.value
             THEN [score |-> ruleScore,
                   max |-> maxMetricScore,
                   findings |-> RuleFinding(rule, metric, NoComponent),
                   resultFlags |->
                        IF rule.autoDowngrade # 0
                        THEN <<Flag("Auto-downgrade applied for ", metric.name)>>
                        ELSE <<>>,
                   recommendations |->
                        IF rule.description # "" THEN <<rule.description>> ELSE <<>>,
                   applied |-> i,
                   threw |-> FALSE]
             ELSE flatRules(metric, f, i + 1, maxMetricScore)

\* the ComponentScore as stored in the breakdown
ComponentScore(c) ==
    [score |-> c.score, maxPossible |-> c.maxPossible, flags |-> c.flags,
     findings |-> c.findings]

RECURSIVE Sum(_)
\* the sum of a sequence of numbers
Sum(xs) == IF xs = <<>> THEN 0 ELSE Head(xs) + Sum(Tail(xs))

\* a mutant of metricResult that adds component scores and maxima without
\* their weights
metricResultUnweighted(metric, f, cs, flat) ==
    LET metricWeight == Weight(metric.weight)
        componentAchieved == Sum([i \in 1..Len(cs) |-> cs[i].score])
        componentPossible == Sum([i \in 1..Len(cs) |-> cs[i].maxPossible])
        missing ==
            /\ flat.applied = 0
            /\ \E key \in DOMAIN f : f[key] = JsNull /\ IdIncludes(metric.id, key)
        none == [id |-> metric.id, score |-> Percent(0, 0), maxPossible |-> 0,
                 achieved |-> 0, components |-> <<>>, findings |-> <<>>,
                 resultFindings |-> <<>>, resultFlags |-> <<>>,
                 recommendations |-> <<>>, applied |-> 0, threw |-> FALSE]
    IN  IF Len(metric.components) > 0
        THEN [none EXCEPT
                !.score = Percent(componentAchieved, componentPossible),
                !.maxPossible = componentPossible,
                !.achieved = componentAchieved,
                !.components = cs,
                !.resultFindings = Concat([i \in 1..Len(cs) |-> cs[i].findings]),
                !.resultFlags = Concat([i \in 1..Len(cs) |-> cs[i].resultFlags]),
                !.threw = \E i \in 1..Len(cs) : cs[i].threw]
        ELSE IF Len(metric.scoring) > 0
        THEN [none EXCEPT
                !.score = Percent(IF missing THEN 0 ELSE flat.score, flat.max),
                !.maxPossible = flat.max * metricWeight,
                !.achieved = (IF missing THEN 0 ELSE flat.score) * metricWeight,
                !.findings = flat.findings,
                !.resultFindings = flat.findings,
                !.resultFlags =
                    IF missing
                    THEN flat.resultFlags \o <<Flag("Missing data for metric: ", metric.name)>>
                    ELSE flat.resultFlags,
                !.recommendations = flat.recommendations,
                !.applied = flat.applied,
                !.threw = flat.threw]
        ELSE none

\* the metricResult of a pass over metrics.metrics, given what its component
\* passes (cs) or its own rule loop (flat) produced
metricResult(metric, f, cs, flat) ==
    LET metricWeight == Weight(metric.weight)
        componentAchieved == Sum([i \in 1..Len(cs) |-> cs[i].score * cs[i].weight])
        componentPossible == Sum([i \in 1..Len(cs) |-> cs[i].maxPossible * cs[i].weight])
        missing ==
            /\ flat.applied = 0
            /\ \E key \in DOMAIN f : f[key] = JsNull /\ IdIncludes(metric.id, key)
        none == [id |-> metric.id, score |-> Percent(0, 0), maxPossible |-> 0,
                 achieved |-> 0, components |-> <<>>, findings |-> <<>>,
                 resultFindings |-> <<>>, resultFlags |-> <<>>,
                 recommendations |-> <<>>, applied |-> 0, threw |-> FALSE]
    IN  IF Len(metric.components) > 0
        THEN [none EXCEPT
                !.score = Percent(componentAchieved, componentPossible),
                !.maxPossible = componentPossible,
                !.achieved = componentAchieved,
                !.components = cs,
                !.resultFindings = Concat([i \in 1..Len(cs) |-> cs[i].findings]),
                !.resultFlags = Concat([i \in 1..Len(cs) |-> cs[i].resultFlags]),
                !.threw = \E i \in 1..Len(cs) : cs[i].threw]
        ELSE IF Len(metric.scoring) > 0
        THEN [none EXCEPT
                !.score = Percent(IF missing THEN 0 ELSE flat.score, flat.max),
                !.maxPossible = flat.max * metricWeight,
                !.achieved = (IF missing THEN 0 ELSE flat.score) * metricWeight,
                !.findings = flat.findings,
                !.resultFindings = flat.findings,
                !.resultFlags =
                    IF missing
                    THEN flat.resultFlags \o <<Flag("Missing data for metric: ", metric.name)>>
                    ELSE flat.resultFlags,
                !.recommendations = flat.recommendations,
                !.applied = flat.applied,
                !.threw = flat.threw]
        ELSE none

\* one pass of the loop over metrics.metrics: the MetricScore before snapping
\* and what the pass adds to the result
scoreMetric(metric, fdvTier, exchangeTier, f) ==
    metricResult(metric, f,
        [i \in 1..Len(metric.components) |->
            scoreComponent(metric, metric.components[i], fdvTier, exchangeTier, f)],
        flatRules(metric, f, 1, 0))

\* a mutant of the auto-downgrade loop that also caps the adjusted total at 100
RECURSIVE applyDowngradesCapped(_, _, _)
applyDowngradesCapped(downgrades, f, total) ==
    IF downgrades = <<>>
    THEN [total |-> total, flags |-> <<>>, findings |-> <<>>, threw |-> FALSE]
    ELSE LET downgrade == Head(downgrades)
             hit == evaluateCondition(downgrade.condition, f).value
             sum == Max2(0, total.num + downgrade.adjustment * total.den)
             lowered == [num |-> IF sum > 100 * total.den THEN 100 * total.den ELSE sum,
                         den |-> total.den]
             rest == applyDowngradesCapped(Tail(downgrades), f,
                        IF hit THEN lowered ELSE total)
         IN  IF hit
             THEN [rest EXCEPT
                     !.flags = <<DowngradeFlag(downgrade.condition)>> \o @,
                     !.findings =
                        (IF downgrade.finding = <<>> THEN <<>>
                         ELSE <<createFinding(downgrade.finding[1].severity, "Auto Downgrade",
                                    downgrade.finding[1].title,
                                    downgrade.finding[1].description,
                                    downgrade.finding[1].recommendation,
                                    "system", NoComponent)>>) \o @]
             ELSE rest

RECURSIVE applyDowngrades(_, _, _)
\* the loop over metrics.autoDowngrades: the total after it, and the flags and
\* findings it pushes
applyDowngrades(downgrades, f, total) ==
    IF downgrades = <<>>
    THEN [total |-> total, flags |-> <<>>, findings |-> <<>>, threw |-> FALSE]
    ELSE LET downgrade == Head(downgrades)
             ev == evaluateCondition(downgrade.condition, f)
             lowered == [num |-> Max2(0, total.num + downgrade.adjustment * total.den),
                         den |-> total.den]
             rest == applyDowngrades(Tail(downgrades), f, IF ev.value THEN lowered ELSE total)
         IN  IF ev.threw
             THEN [total |-> total, flags |-> <<>>, findings |-> <<>>, threw |-> TRUE]
             ELSE IF ev.value
             THEN [rest EXCEPT
                     !.flags = <<DowngradeFlag(downgrade.condition)>> \o @,
                     !.findings =
                        (IF downgrade.finding = <<>> THEN <<>>
                         ELSE <<createFinding(downgrade.finding[1].severity, "Auto Downgrade",
                                    downgrade.finding[1].title,
                                    downgrade.finding[1].description,
                                    downgrade.finding[1].recommendation,
                                    "system", NoComponent)>>) \o @]
             ELSE rest

\* r && r.trim().length > 0
NonBlank(r) == r \notin {"", " "}

\* a mutant of Unique that keeps every occurrence
UniqueKeepAll(list, seen) == list

RECURSIVE Unique(_, _)
\* Array.from(new Set(list)): the first occurrence of each text, in order
Unique(list, seen) ==
    IF list = <<>> THEN <<>>
    ELSE IF Head(list) \in seen THEN Unique(Tail(list), seen)
    ELSE <<Head(list)>> \o Unique(Tail(list), seen \cup {Head(list)})

\* a mutant of the rating scale loop without its break: the last band whose
\* minimum is reached stays assigned
gradeOfLast(totalScore) ==
    LET scale == metrics.ratingScale
        at == {k \in 1..Len(scale) : totalScore >= scale[k].min}
        i == IF at = {} THEN 0 ELSE CHOOSE k \in at : \A j \in at : j <= k
    IN  IF i = 0 THEN [grade |-> "", description |-> ""]
        ELSE [grade |-> scale[i].grade, description |-> scale[i].description]

\* a mutant of the rating scale loop whose comparison is turned around
gradeOfFlipped(totalScore) ==
    LET scale == metrics.ratingScale
        i == FirstIndex([k \in 1..Len(scale) |-> totalScore <= scale[k].min], {TRUE}, 1)
    IN  IF i = 0 THEN [grade |-> "", description |-> ""]
        ELSE [grade |-> scale[i].grade, description |-> scale[i].description]

\* the first band of the rating scale with totalScore >= min, or none
gradeOf(totalScore) ==
    LET scale == metrics.ratingScale
        i == FirstIndex([k \in 1..Len(scale) |-> totalScore >= scale[k].min], {TRUE}, 1)
    IN  IF i = 0 THEN [grade |-> "", description |-> ""]
        ELSE [grade |-> scale[i].grade, description |-> scale[i].description]

\* a mutant of the fresh result object: the flags array of the previous
\* invocation's result is reused
NewResultReused(f) ==
    [totalScore |-> 0, grade |-> "", gradeDescription |-> "", metrics |-> <<>>,
     flags |-> IF outcome = "returned" /\ Len(result.flags) < 3
               THEN result.flags ELSE <<>>,
     recommendations |-> <<>>,
     tierInfo |-> [fdvTier |-> "", fdvTierLabel |-> "", exchangeTier |-> "",
                   exchangeTierLabel |-> "", fdvValue |-> Get(f, "fdv"),
                   exchangeName |-> Get(f, "exchange")],
     findings |-> <<>>]

\* the result object scoreAgreement starts from
NewResult(f) ==
    [totalScore |-> 0, grade |-> "", gradeDescription |-> "", metrics |-> <<>>,
     flags |-> <<>>, recommendations |-> <<>>,
     tierInfo |-> [fdvTier |-> "", fdvTierLabel |-> "", exchangeTier |-> "",
                   exchangeTierLabel |-> "", fdvValue |-> Get(f, "fdv"),
                   exchangeName |-> Get(f, "exchange")],
     findings |-> <<>>]

\* the MetricScore of the result: the metric after the snapping loop
snapMetric(m) ==
    LET achieved == snapToDisplayScore([num |-> m.achieved, den |-> 1], m.maxPossible)
    IN  [score |-> Percent(achieved, m.maxPossible),
         maxPossible |-> m.maxPossible,
         achieved |-> achieved,
         components |->
            [id \in {m.components[i].id : i \in 1..Len(m.components)} |->
                ComponentScore(
                    m.components[CHOOSE i \in 1..Len(m.components) : m.components[i].id = id])],
         findings |-> m.findings]

\* the end of scoreAgreement, from the snapping of the metrics on: `ms` is what
\* the loop over metrics.metrics produced and `down` what the auto-downgrade
\* loop produced from rawTotal
finishResult(f, fdvTierInfo, exchangeTierInfo, builtIn, redFlags, ms, rawTotal, down) ==
    LET base == NewResult(f)
        totalScore == snapToDisplayScore(down.total, 100)
        band == gradeOf(totalScore)
        findings == base.findings \o builtIn \o redFlags.findings
                    \o Concat([i \in 1..Len(ms) |-> ms[i].resultFindings])
                    \o down.findings
        pushed == base.recommendations
                  \o Concat([i \in 1..Len(ms) |-> ms[i].recommendations])
        collected == SelectSeq([i \in 1..Len(findings) |-> findings[i].recommendation],
                               NonBlank)
    IN  [threw |-> \/ redFlags.threw
                   \/ \E i \in 1..Len(ms) : ms[i].threw
                   \/ down.threw,
         result |->
            [totalScore |-> totalScore,
             grade |-> band.grade,
             gradeDescription |-> band.description,
             metrics |-> [id \in {ms[i].id : i \in 1..Len(ms)} |->
                            snapMetric(ms[CHOOSE i \in 1..Len(ms) : ms[i].id = id])],
             flags |-> base.flags \o redFlags.flags
                       \o Concat([i \in 1..Len(ms) |-> ms[i].resultFlags])
                       \o down.flags,
             recommendations |-> Unique(pushed \o collected, {}),
             tierInfo |-> [fdvTier |-> fdvTierInfo.tier,
                           fdvTierLabel |-> fdvTierInfo.label,
                           exchangeTier |-> exchangeTierInfo.tier,
                           exchangeTierLabel |-> exchangeTierInfo.label,
                           fdvValue |-> Get(f, "fdv"),
                           exchangeName |-> Get(f, "exchange")],
             findings |-> findings],
         audit |-> [rawTotal |-> rawTotal, adjustedTotal |-> down.total, metrics |-> ms]]

\* scoreAgreement after the loop over metrics.metrics: the total over the
\* metrics and the auto-downgrade loop
totalAndDowngrades(f, fdvTierInfo, exchangeTierInfo, builtIn, redFlags, ms, rawTotal) ==
    finishResult(f, fdvTierInfo, exchangeTierInfo, builtIn, redFlags, ms, rawTotal,
        applyDowngrades(metrics.autoDowngrades, f, rawTotal))

\* a mutant of scoreMetrics whose total is the mean of the metric percentages
scoreMetricsMean(f, fdvTierInfo, exchangeTierInfo, builtIn, redFlags, ms) ==
    totalAndDowngrades(f, fdvTierInfo, exchangeTierInfo, builtIn, redFlags, ms,
        [num |-> Sum([i \in 1..Len(ms) |->
                        IF ms[i].maxPossible > 0 THEN (100 * ms[i].achieved) \div ms[i].maxPossible
                        ELSE 0]),
         den |-> IF Len(ms) > 0 THEN Len(ms) ELSE 1])

\* scoreAgreement from the loop over metrics.metrics on; scoringFacts is a
\* shallow copy of facts
scoreMetrics(f, fdvTierInfo, exchangeTierInfo, builtIn, redFlags, ms) ==
    totalAndDowngrades(f, fdvTierInfo, exchangeTierInfo, builtIn, redFlags, ms,
        Percent(Sum([i \in 1..Len(ms) |-> ms[i].achieved]),
                Sum([i \in 1..Len(ms) |-> ms[i].maxPossible])))

\* the start of scoreAgreement: tier resolution
resolveTiers(f, fdvTierInfo, exchangeTierInfo) ==
    scoreMetrics(f, fdvTierInfo, exchangeTierInfo, generateFindings(f), processRedFlags(f),
        [i \in 1..Len(metrics.metrics) |->
            scoreMetric(metrics.metrics[i], fdvTierInfo.tier, exchangeTierInfo.tier, f)])

\* scoreAgreement(facts): whether an exception left the call, the ScoringResult
\* returned, and the values computed before snapping
scoreAgreement(f) ==
    resolveTiers(f, getTier(Get(f, "fdv")), getExchangeTier(Get(f, "exchange")))

(***************************************************************************)
(* redactResult.                                                           *)
(***************************************************************************)
REDACTION_MESSAGE == "Upgrade to Pro to unlock detailed findings and strategic advice."
REDACTED_FLAG == Flag("", "Potential risk identified (Upgrade to reveal)")

\* JSON.parse(JSON.stringify(v)) of a facts value: a property holding undefined
\* is dropped and reads back as undefined; null, numbers, strings and booleans
\* come back as they were
JsonValue(v) == IF v.t = "undefined" THEN JsUndefined ELSE v

\* JSON.parse(JSON.stringify(result)): a copy that shares nothing with result
JsonClone(r) ==
    [r EXCEPT !.tierInfo = [@ EXCEPT !.fdvValue = JsonValue(@),
                                     !.exchangeName = JsonValue(@)]]

RedactFinding(finding) ==
    [finding EXCEPT !.description = REDACTION_MESSAGE,
                    !.recommendation = REDACTION_MESSAGE]

\* the redacted copy
Redacted(r) ==
    [JsonClone(r) EXCEPT
        !.recommendations = [i \in 1..Len(@) |-> REDACTION_MESSAGE],
        !.findings = [i \in 1..Len(@) |-> RedactFinding(@[i])],
        !.flags = [i \in 1..Len(@) |-> REDACTED_FLAG],
        !.metrics = [id \in DOMAIN @ |->
                        [@[id] EXCEPT
                            !.findings = [i \in 1..Len(@) |-> RedactFinding(@[i])]]]]

\* a mutant of redactResult that redacts the object it is given, without copying
redactResultInPlace(r) == [ret |-> Redacted(r), arg |-> Redacted(r)]

\* a mutant of redactResult whose map callbacks lack the spread of the finding
redactResultNoSpread(r) ==
    [ret |-> [Redacted(r) EXCEPT
                !.findings = [i \in 1..Len(@) |->
                                [@[i] EXCEPT !.severity = "", !.category = "",
                                             !.title = ""]]],
     arg |-> r]

\* redactResult(result): the value returned, and the argument object after the call
redactResult(r) == [ret |-> Redacted(r), arg |-> r]

(***************************************************************************)
(* The state machine: a caller scores facts records and redacts results.   *)
(***************************************************************************)
\* no controller has run: the engine is called directly
NoWebTraffic ==
    /\ subscription = [status |-> "none", maxFileAnalyses |-> 0, usedFileAnalyses |-> 0]
    /\ usageLog = 0
    /\ reviews = <<>>
    /\ requests = <<>>
    /\ response = NoResponse
    /\ now = 0
    /\ stripe = NoStripe

\* another document scored by the same process between two invocations
OtherFacts ==
    {[fdv |-> Num(500), exchange |-> Str("Binance"), clawback |-> Str("weak"),
      noticePeriodDays |-> Num(200), windDownDefined |-> JsTrue]}

Init ==
    /\ metrics \in Rubrics
    /\ input \in FactsRecords
    /\ facts = NoFacts
    /\ outcome = "none"
    /\ result = NoResult
    /\ returned = NoResult
    /\ audit = NoAudit
    /\ refResult = <<>>
    /\ phase = "first"
    /\ view = <<>>
    /\ NoWebTraffic

ScoreAgreement(f) ==
    \E call \in {scoreAgreement(f)} :
        /\ facts' = f
        /\ outcome' = IF call.threw THEN "threw" ELSE "returned"
        /\ result' = IF call.threw THEN NoResult ELSE call.result
        /\ returned' = IF call.threw THEN NoResult ELSE call.result
        /\ audit' = IF call.threw THEN NoAudit ELSE call.audit
        /\ refResult' = IF f = input /\ refResult = <<>> /\ ~call.threw
                        THEN <<call.result>> ELSE refResult
        /\ phase' = IF refResult = <<>> THEN "first"
                    ELSE IF f # input THEN "between"
                    ELSE IF phase = "first" THEN "first" ELSE "again"
        /\ view' = <<>>
        /\ UNCHANGED <<metrics, input>>
        /\ UNCHANGED webVars

\* redactResult on the result the engine returned, or on a view already redacted
RedactResult ==
    /\ outcome = "returned"
    /\ \E again \in {b \in BOOLEAN : b => view # <<>>} :
          \E call \in {redactResult(IF again THEN view[1] ELSE result)} :
              /\ view' = <<call.ret>>
              /\ result' = IF again THEN result ELSE call.arg
    /\ UNCHANGED <<metrics, input, facts, outcome, returned, audit, refResult, phase>>
    /\ UNCHANGED webVars

Next ==
    \/ \E f \in {input} \cup OtherFacts : ScoreAgreement(f)
    \/ RedactResult

Spec == Init /\ [][Next]_vars

(***************************************************************************)
(* The grade mapping on its own: final totals graded against rating scales *)
(* of every shape, the ordered scale of the rubrics among them.            *)
(***************************************************************************)
Band(min, grade, description) == [min |-> min, grade |-> grade, description |-> description]

RatingScales ==
    {<<Band(80, "A", "Excellent"), Band(60, "B", "Good"), Band(40, "C", "Fair"),
       Band(0, "D", "Poor")>>,
     <<Band(80, "A", "Excellent"), Band(40, "C", "Fair")>>,
     <<Band(40, "C", "Fair"), Band(80, "A", "Excellent"), Band(0, "D", "Poor")>>,
     <<Band(60, "B", "Good"), Band(60, "C", "Fair"), Band(0, "D", "Poor")>>,
     <<Band(0, "D", "Poor")>>,
     <<>>}

\* final (snapped) totals, on and around the thresholds
Totals == {0, 13, 39, 40, 41, 59, 60, 61, 79, 80, 85, 100}

\* the fields of the result the rating scale loop reads and writes
Graded(totalScore) ==
    [totalScore |-> totalScore,
     grade |-> gradeOf(totalScore).grade,
     gradeDescription |-> gradeOf(totalScore).description]

InitGrade ==
    /\ metrics \in {[Rubric(<<CatchAllRule>>) EXCEPT !.ratingScale = scale] :
                        scale \in RatingScales}
    /\ input = NoFacts
    /\ facts = NoFacts
    /\ outcome = "none"
    /\ result = NoResult
    /\ returned = NoResult
    /\ audit = NoAudit
    /\ refResult = <<>>
    /\ phase = "first"
    /\ view = <<>>
    /\ NoWebTraffic

\* the rating scale loop run on a final total; the total graded before it is kept
GradeTotal(totalScore) ==
    /\ result' = Graded(totalScore)
    /\ refResult' = IF outcome = "returned" THEN <<result>> ELSE <<>>
    /\ outcome' = "returned"
    /\ UNCHANGED <<metrics, input, facts, returned, audit, phase, view>>
    /\ UNCHANGED webVars

NextGrade == \E totalScore \in Totals : GradeTotal(totalScore)

GradeSpec == InitGrade /\ [][NextGrade]_vars

(***************************************************************************)
(* Tier resolution on its own: the tierInfo scoreAgreement builds from the *)
(* valuation and the exchange name of a facts record.                      *)
(***************************************************************************)
\* valuations: absent, null, and numbers inside, between and outside the ranges
FdvInputs ==
    {JsUndefined, JsNull, Num(-5), Num(0), Num(25), Num(50), Num(51), Num(55),
     Num(200), Num(201), Num(500)}

\* exchange names: absent, null, empty, configured and not configured
ExchangeInputs ==
    {JsUndefined, JsNull, Str(""), Str("Binance"), Str("Coinbase"), Str("KuCoin"),
     Str("Kraken")}

TierFacts == [fdv : FdvInputs, exchange : ExchangeInputs]

\* the tier tables of the rubrics, and tables whose ranges leave a gap
TierRubrics ==
    {Rubric(<<CatchAllRule>>),
     [Rubric(<<CatchAllRule>>) EXCEPT
        !.fdvTiers = <<[id |-> "MicroCap", min |-> 0, max |-> 50, label |-> "Micro Cap"],
                       [id |-> "SmallCap", min |-> 60, max |-> 200, label |-> "Small Cap"],
                       [id |-> "LargeCap", min |-> 150, max |-> Infinity,
                        label |-> "Large Cap"]>>]}

InitTiers ==
    /\ metrics \in TierRubrics
    /\ input \in TierFacts
    /\ facts = NoFacts
    /\ outcome = "none"
    /\ result = NoResult
    /\ returned = NoResult
    /\ audit = NoAudit
    /\ refResult = <<>>
    /\ phase = "first"
    /\ view = <<>>
    /\ NoWebTraffic

\* the tier information of scoreAgreement(f)
TierInfo(f, fdvTierInfo, exchangeTierInfo) ==
    [fdvTier |-> fdvTierInfo.tier,
     fdvTierLabel |-> fdvTierInfo.label,
     exchangeTier |-> exchangeTierInfo.tier,
     exchangeTierLabel |-> exchangeTierInfo.label,
     fdvValue |-> Get(f, "fdv"),
     exchangeName |-> Get(f, "exchange")]

ResolveTierInfo(f) ==
    /\ outcome = "none"
    /\ facts' = f
    /\ result' = [tierInfo |->
                    TierInfo(f, getTier(Get(f, "fdv")), getExchangeTier(Get(f, "exchange")))]
    /\ outcome' = "returned"
    /\ UNCHANGED <<metrics, input, returned, audit, refResult, phase, view>>
    /\ UNCHANGED webVars

NextTiers == ResolveTierInfo(input)

TierSpec == InitTiers /\ [][NextTiers]_vars

(***************************************************************************)
(* Module load with any configuration document: the import of              *)
(* config/metrics.json is cast to MetricsData and used as it is.           *)
(***************************************************************************)
\* configuration documents: a well-formed one, one with an empty rating scale,
\* one whose rating scale has no band of minimum 0, one with empty scoring
\* lists, and a well-formed one whose only metric is the exchange-dependent one
Configurations ==
    {Rubric(<<SpecificRule, CatchAllRule>>),
     [Rubric(<<SpecificRule, CatchAllRule>>) EXCEPT !.metrics = <<@[3]>>],
     [Rubric(<<SpecificRule, CatchAllRule>>) EXCEPT !.ratingScale = <<>>],
     [Rubric(<<SpecificRule, CatchAllRule>>) EXCEPT
        !.ratingScale = <<Band(80, "A", "Excellent"), Band(40, "C", "Fair")>>],
     Rubric(<<>>)}

InitLoad ==
    /\ metrics \in Configurations
    /\ input \in FactsRecords
    /\ facts = NoFacts
    /\ outcome = "none"
    /\ result = NoResult
    /\ returned = NoResult
    /\ audit = NoAudit
    /\ refResult = <<>>
    /\ phase = "first"
    /\ view = <<>>
    /\ NoWebTraffic

LoadSpec == InitLoad /\ [][Next]_vars

(***************************************************************************)
(* The controllers around the engine: POST /file/:fileId/analyze behind    *)
(* the checkFileAnalysisLimit middleware, and the endpoints that return    *)
(* stored reviews.  One user owns one file; every await of an analyze      *)
(* request is a point where another request may run.  The subscription     *)
(* status does not change and no billing period ends during a behaviour.   *)
(***************************************************************************)
NumRequests == 2
MaxLimit == 2
FREE_FILE_ANALYSES == 3
Unlimited == -1

FACTS_MESSAGE == [message |-> "Upgrade to Pro to unlock detailed extracted contract terms."]

\* what aiService.extractFacts returns for the file
WebFacts ==
    {[fdv |-> Num(500), exchange |-> Str("Binance"), clawback |-> Str("weak"),
      noticePeriodDays |-> Num(45), windDownDefined |-> JsTrue],
     [fdv |-> JsNull, exchange |-> JsNull, clawback |-> JsNull,
      noticePeriodDays |-> JsNull, windDownDefined |-> JsUndefined]}

Subscriptions ==
    {[status |-> "none", maxFileAnalyses |-> 0, usedFileAnalyses |-> 0]}
    \cup {sub \in {[status |-> "active", maxFileAnalyses |-> limit, usedFileAnalyses |-> used] :
                        limit \in 1..MaxLimit, used \in 0..MaxLimit} :
            sub.usedFileAnalyses <= sub.maxFileAnalyses}
    \cup {[status |-> "active", maxFileAnalyses |-> Unlimited, usedFileAnalyses |-> 0]}

\* subscription && subscription.status === "active"
IsPro == subscription.status = "active"

\* calculateUsageLimit(subscription, "file_analysis")
calculateUsageLimit(sub) ==
    IF sub.maxFileAnalyses = Unlimited
    THEN [allowed |-> TRUE, remaining |-> -1, limit |-> -1]
    ELSE [allowed |-> sub.maxFileAnalyses - sub.usedFileAnalyses > 0,
          remaining |-> Max2(0, sub.maxFileAnalyses - sub.usedFileAnalyses),
          limit |-> sub.maxFileAnalyses]

\* checkUsageLimit(userId, "file_analysis") within a billing period
checkUsageLimit ==
    IF subscription.status # "active"
    THEN IF FREE_FILE_ANALYSES <= 0
         THEN [allowed |-> FALSE, remaining |-> 0, limit |-> 0]
         ELSE [allowed |-> Max2(0, FREE_FILE_ANALYSES - usageLog) > 0,
               remaining |-> Max2(0, FREE_FILE_ANALYSES - usageLog),
               limit |-> FREE_FILE_ANALYSES]
    ELSE calculateUsageLimit(subscription)

\* the object analyzeFile hands to saveScore: the scores with extractedFacts
\* next to them
FlatContent(scoringResult, extractedFacts) ==
    [totalScore |-> scoringResult.totalScore,
     metrics |-> scoringResult.metrics,
     flags |-> scoringResult.flags,
     recommendations |-> scoringResult.recommendations,
     grade |-> scoringResult.grade,
     gradeDescription |-> scoringResult.gradeDescription,
     findings |-> scoringResult.findings,
     tierInfo |-> scoringResult.tierInfo,
     extractedFacts |-> extractedFacts]

\* review content of the other shape the readers accept
WrappedContent(scoringResult, extractedFacts) ==
    [scoringResult |-> scoringResult, extractedFacts |-> extractedFacts]

NewRequest == [pc |-> "new", status |-> 0, extractedFacts |-> <<>>, scoringResult |-> <<>>]

InitWeb ==
    /\ metrics = Rubric(<<SpecificRule, CatchAllRule>>)
    /\ input \in WebFacts
    /\ facts = NoFacts
    /\ outcome = "none"
    /\ result = NoResult
    /\ returned = NoResult
    /\ audit = NoAudit
    /\ refResult = <<>>
    /\ phase = "first"
    /\ view = <<>>
    /\ subscription \in Subscriptions
    /\ usageLog \in IF subscription.status = "active"
                    THEN {subscription.usedFileAnalyses} ELSE 0..FREE_FILE_ANALYSES
    /\ reviews \in {<<>>, <<WrappedContent(scoreAgreement(input).result, input)>>}
    /\ requests = [r \in 1..NumRequests |-> NewRequest]
    /\ response = NoResponse
    /\ now = 0
    /\ stripe = NoStripe

\* the middleware of the analyze route: 403 when the limit is reached,
\* next() otherwise
CheckFileAnalysisLimit(r) ==
    /\ requests[r].pc = "new"
    /\ \E usageCheck \in {checkUsageLimit} :
          IF ~usageCheck.allowed
          THEN /\ requests' = [requests EXCEPT ![r].pc = "done", ![r].status = 403]
               /\ response' = [endpoint |-> "checkFileAnalysisLimit", status |-> 403,
                               body |-> <<>>]
          ELSE /\ requests' = [requests EXCEPT ![r].pc = "admitted"]
               /\ UNCHANGED response
    /\ UNCHANGED <<subscription, usageLog, reviews>>
    /\ UNCHANGED engineVars
    /\ UNCHANGED clockVars

\* analyzeFile up to saveScore: the facts are extracted, the agreement is
\* scored and the review is stored
AnalyzeFileScore(r) ==
    /\ requests[r].pc = "admitted"
    /\ \E call \in {scoreAgreement(input)} :
          /\ ~call.threw
          /\ reviews' = Append(reviews, FlatContent(call.result, input))
          /\ requests' = [requests EXCEPT ![r].pc = "saved",
                                          ![r].extractedFacts = <<input>>,
                                          ![r].scoringResult = <<call.result>>]
    /\ UNCHANGED <<subscription, usageLog, response>>
    /\ UNCHANGED engineVars
    /\ UNCHANGED clockVars

\* trackUsage(userId, "file_analysis", ...): a UsageLog row, and the counter of
\* the Subscription row when there is one
AnalyzeFileTrack(r) ==
    /\ requests[r].pc = "saved"
    /\ usageLog' = usageLog + 1
    /\ subscription' =
          IF subscription.status = "none" THEN subscription
          ELSE [subscription EXCEPT !.usedFileAnalyses = @ + 1]
    /\ requests' = [requests EXCEPT ![r].pc = "tracked"]
    /\ UNCHANGED <<reviews, response>>
    /\ UNCHANGED engineVars
    /\ UNCHANGED clockVars

\* the end of analyzeFile: redaction for a user without an active subscription,
\* and the response
AnalyzeFileRespond(r) ==
    /\ requests[r].pc = "tracked"
    /\ response' =
          [endpoint |-> "analyzeFile", status |-> 200,
           body |-> <<[success |-> TRUE,
                       extractedFacts |->
                            IF IsPro THEN requests[r].extractedFacts[1] ELSE FACTS_MESSAGE,
                       scoringResult |->
                            IF IsPro THEN requests[r].scoringResult[1]
                            ELSE redactResult(requests[r].scoringResult[1]).ret]>>]
    /\ requests' = [requests EXCEPT ![r].pc = "done", ![r].status = 200]
    /\ UNCHANGED <<subscription, usageLog, reviews>>
    /\ UNCHANGED engineVars
    /\ UNCHANGED clockVars

\* the redaction the reading endpoints apply to review.content
RedactContent(content) ==
    IF "scoringResult" \in DOMAIN content
    THEN [content EXCEPT
            !.scoringResult = redactResult(@).ret,
            !.extractedFacts = FACTS_MESSAGE]
    ELSE redactResult(content).ret

\* review.content as the reading endpoints return it
ReturnedContent(content) == IF ~IsPro THEN RedactContent(content) ELSE content

\* getAllFiles: the file with its latest review
GetAllFiles ==
    /\ response' =
          [endpoint |-> "getAllFiles", status |-> 200,
           body |-> IF reviews = <<>> THEN <<>>
                    ELSE <<ReturnedContent(reviews[Len(reviews)])>>]
    /\ UNCHANGED <<subscription, usageLog, reviews, requests>>
    /\ UNCHANGED engineVars
    /\ UNCHANGED clockVars

\* getReviewsByFileId: every review of the file, latest first
GetReviewsByFileId ==
    /\ response' =
          [endpoint |-> "getReviewsByFileId", status |-> 200,
           body |-> [i \in 1..Len(reviews) |->
                        ReturnedContent(reviews[Len(reviews) + 1 - i])]]
    /\ UNCHANGED <<subscription, usageLog, reviews, requests>>
    /\ UNCHANGED engineVars
    /\ UNCHANGED clockVars

\* getSharedContent: the latest review of the shared file, redacted by the
\* subscription of the file's owner
GetSharedContent ==
    /\ response' =
          [endpoint |-> "getSharedContent", status |-> 200,
           body |-> IF reviews = <<>> THEN <<>>
                    ELSE <<ReturnedContent(reviews[Len(reviews)])>>]
    /\ UNCHANGED <<subscription, usageLog, reviews, requests>>
    /\ UNCHANGED engineVars
    /\ UNCHANGED clockVars

NextWeb ==
    \/ \E r \in 1..NumRequests :
          \/ CheckFileAnalysisLimit(r)
          \/ AnalyzeFileScore(r)
          \/ AnalyzeFileTrack(r)
          \/ AnalyzeFileRespond(r)
    \/ GetAllFiles
    \/ GetReviewsByFileId
    \/ GetSharedContent

WebSpec == InitWeb /\ [][NextWeb]_vars

(***************************************************************************)
(* Component maxima: the first component scored by rule lists that mix     *)
(* untiered condition rules, tiered range rules of two tiers, and a        *)
(* condition rule that carries a tier but no ranges.                       *)
(***************************************************************************)
LargeCapRule == TieredRule("LargeCap", <<Range(60, 30, 0), Range(Infinity, 6, 0)>>)

TierConditionRule ==
    [ConditionRule(CondEq("noticePeriodDays", Num(45)), 12, "Micro-cap notice period", 0, <<>>)
        EXCEPT !.tier = "MicroCap"]

ComponentRuleAlphabet ==
    {SpecificRule, CatchAllRule, MicroCapRule, LargeCapRule, TierConditionRule}

ComponentRubrics ==
    {Rubric(scoring) : scoring \in UNION {[1..k -> ComponentRuleAlphabet] : k \in 1..MaxRules}}

InitComponents ==
    /\ metrics \in ComponentRubrics
    /\ input \in FactsRecords
    /\ facts = NoFacts
    /\ outcome = "none"
    /\ result = NoResult
    /\ returned = NoResult
    /\ audit = NoAudit
    /\ refResult = <<>>
    /\ phase = "first"
    /\ view = <<>>
    /\ NoWebTraffic

ComponentSpec == InitComponents /\ [][Next]_vars

(***************************************************************************)
(* Snapping on its own: snapToDisplayScore applied to raw scores below,    *)
(* on, between and above the thresholds of one ceiling.                    *)
(***************************************************************************)
\* ceilings: the enumerated ones, and others (a metric's maxPossible may be 0)
Ceilings == {100, 25, 20, 15, 10, 5, 0, 1, 3, 8, 30}

\* raw scores as exact quotients: whole numbers and halves
RawScores ==
    {[num |-> n, den |-> 1] : n \in (-2..31) \cup {84, 85, 86, 100, 101}}
        \cup {[num |-> n, den |-> 2] : n \in {-1, 1, 5, 11, 25, 33, 169}}

\* a call of snapToDisplayScore and the value it returned
Snapped(score, max) ==
    [score |-> score, max |-> max, snapped |-> snapToDisplayScore(score, max)]

InitSnap ==
    /\ metrics = Rubric(<<CatchAllRule>>)
    /\ input \in Ceilings
    /\ facts = NoFacts
    /\ outcome = "none"
    /\ result = NoResult
    /\ returned = NoResult
    /\ audit = NoAudit
    /\ refResult = <<>>
    /\ phase = "first"
    /\ view = <<>>
    /\ NoWebTraffic

\* snapToDisplayScore(score, max) for the ceiling drawn; the call before it is kept
SnapScore(score) ==
    /\ result' = Snapped(score, input)
    /\ refResult' = IF outcome = "returned" THEN <<result>> ELSE <<>>
    /\ outcome' = "returned"
    /\ UNCHANGED <<metrics, input, facts, returned, audit, phase, view>>
    /\ UNCHANGED webVars

NextSnap == \E score \in RawScores : SnapScore(score)

SnapSpec == InitSnap /\ [][NextSnap]_vars

(***************************************************************************)
(* The built-in pattern checks over notice periods on and around every     *)
(* band edge and over every clawback rating.                               *)
(***************************************************************************)
BuiltInFacts ==
    [fdv : {JsNull}, exchange : {JsNull},
     clawback : {JsUndefined, JsNull, Str("strong"), Str("moderate"), Str("basic"), Str("weak")},
     noticePeriodDays : {JsUndefined, JsNull} \cup
        {Num(d) : d \in {0, 29, 30, 45, 60, 61, 90, 91, 120, 121, 180, 181, 200}},
     windDownDefined : {JsUndefined, JsTrue}]

InitFindings ==
    /\ metrics = Rubric(<<SpecificRule, CatchAllRule>>)
    /\ input \in BuiltInFacts
    /\ facts = NoFacts
    /\ outcome = "none"
    /\ result = NoResult
    /\ returned = NoResult
    /\ audit = NoAudit
    /\ refResult = <<>>
    /\ phase = "first"
    /\ view = <<>>
    /\ NoWebTraffic

FindingsSpec == InitFindings /\ [][Next]_vars

(***************************************************************************)
(* Billing periods: an active subscription with a finite limit, the clock, *)
(* Stripe renewing the subscription when a period is over, and the webhook *)
(* events of a renewal delivered some time after it.                       *)
(***************************************************************************)
PeriodLength == 2
MaxTime == 5
NumChecks == 3

\* resetUsage(userId, nextResetDate) on the Subscription row
resetUsage(sub, nextResetDate) ==
    [sub EXCEPT !.usedFileAnalyses = 0, !.usageResetAt = nextResetDate]

\* the Subscription row createSubscription writes for a period ending at
\* currentPeriodEnd
createSubscription(limit, currentPeriodEnd) ==
    [status |-> "active", maxFileAnalyses |-> limit, usedFileAnalyses |-> 0,
     currentPeriodEnd |-> currentPeriodEnd, usageResetAt |-> currentPeriodEnd]

InitPeriod ==
    /\ metrics = Rubric(<<CatchAllRule>>)
    /\ input = NoFacts
    /\ facts = NoFacts
    /\ outcome = "none"
    /\ result = NoResult
    /\ returned = NoResult
    /\ audit = NoAudit
    /\ refResult = <<>>
    /\ phase = "first"
    /\ view = <<>>
    /\ subscription \in {createSubscription(limit, PeriodLength) : limit \in 1..MaxLimit}
    /\ usageLog = 0
    /\ reviews = <<>>
    /\ requests = <<>>
    /\ response = NoResponse
    /\ now = 0
    /\ stripe = [current_period_end |-> PeriodLength, events |-> {}]

\* Stripe's subscription once the time is t: past the end of the period the
\* next period has begun and the events of the renewal are queued
renewedAt(t) ==
    IF t > stripe.current_period_end
    THEN [current_period_end |-> stripe.current_period_end + PeriodLength,
          events |-> stripe.events
                        \cup {"customer.subscription.updated", "invoice.payment_succeeded"}]
    ELSE stripe

\* time passes, and Stripe renews the subscription when its period is over
Tick ==
    /\ now < MaxTime
    /\ now' = now + 1
    /\ stripe' = renewedAt(now')
    /\ UNCHANGED <<subscription, usageLog, reviews, requests, response>>
    /\ UNCHANGED engineVars

\* webhook customer.subscription.updated: updateSubscriptionStatus with the
\* period of the Stripe subscription
HandleSubscriptionUpdated ==
    /\ "customer.subscription.updated" \in stripe.events
    /\ subscription' = [subscription EXCEPT !.currentPeriodEnd = stripe.current_period_end]
    /\ stripe' = [stripe EXCEPT !.events = @ \ {"customer.subscription.updated"}]
    /\ UNCHANGED <<usageLog, reviews, requests, response, now>>
    /\ UNCHANGED engineVars

\* webhook invoice.payment_succeeded: resetUsage to the period end of the
\* Stripe subscription
HandleInvoicePaymentSucceeded ==
    /\ "invoice.payment_succeeded" \in stripe.events
    /\ subscription' = resetUsage(subscription, stripe.current_period_end)
    /\ stripe' = [stripe EXCEPT !.events = @ \ {"invoice.payment_succeeded"}]
    /\ UNCHANGED <<usageLog, reviews, requests, response, now>>
    /\ UNCHANGED engineVars

\* the Subscription row after checkUsageLimit's reset, if the period is over
afterPeriodCheck(sub) ==
    IF now > sub.usageResetAt THEN resetUsage(sub, sub.currentPeriodEnd) ELSE sub

\* checkFileAnalysisLimit for an active subscriber: checkUsageLimit with its
\* reset, then 403 or next(); the call is kept with its local values
CheckUsageLimit ==
    /\ Len(requests) < NumChecks
    /\ subscription' = afterPeriodCheck(subscription)
    /\ requests' = Append(requests,
          [pc |-> IF calculateUsageLimit(subscription').allowed THEN "admitted" ELSE "done",
           status |-> IF calculateUsageLimit(subscription').allowed THEN 0 ELSE 403,
           at |-> now,
           reset |-> now > subscription.usageResetAt,
           usageResetAt |-> subscription'.usageResetAt])
    /\ UNCHANGED <<usageLog, reviews, response, now, stripe>>
    /\ UNCHANGED engineVars

\* analyzeFile of an admitted request, up to and including trackUsage
TrackUsage(r) ==
    /\ requests[r].pc = "admitted"
    /\ usageLog' = usageLog + 1
    /\ subscription' = [subscription EXCEPT !.usedFileAnalyses = @ + 1]
    /\ requests' = [requests EXCEPT ![r].pc = "done", ![r].status = 200]
    /\ UNCHANGED <<reviews, response, now, stripe>>
    /\ UNCHANGED engineVars

NextPeriod ==
    \/ Tick
    \/ HandleSubscriptionUpdated
    \/ HandleInvoicePaymentSucceeded
    \/ CheckUsageLimit
    \/ \E r \in DOMAIN requests : TrackUsage(r)

PeriodSpec == InitPeriod /\ [][NextPeriod]_vars

(***************************************************************************)
(* Properties.                                                             *)
(***************************************************************************)
Returned == outcome = "returned"

MetricIds == {metrics.metrics[i].id : i \in 1..Len(metrics.metrics)}

\* C1: the totalScore of every returned ScoringResult lies in 0..100, whatever
\* the raw aggregate and the adjustments applied to it were.
C1_TotalScoreInRange ==
    Returned => result.totalScore >= 0 /\ result.totalScore <= 100

\* C1 witness: a positive adjustment took the total above 100 before snapping,
\* and a result was returned.
C1_Witness ==
    /\ Returned
    /\ audit.adjustedTotal.num > 100 * audit.adjustedTotal.den
    /\ audit.rawTotal.num < audit.adjustedTotal.num

\* C2: in every returned ScoringResult every metric has achieved <= maxPossible,
\* a metric with maxPossible 0 included, after snapping.
C2_AchievedAtMostMax ==
    Returned =>
        \A id \in DOMAIN result.metrics :
            result.metrics[id].achieved <= result.metrics[id].maxPossible

MetricNumbers(r) ==
    [id \in DOMAIN r.metrics |->
        [score |-> r.metrics[id].score, achieved |-> r.metrics[id].achieved,
         maxPossible |-> r.metrics[id].maxPossible]]

\* C4: redactResult is idempotent and score-preserving: redacting the redacted
\* view gives the view again; the view has the totalScore, grade,
\* gradeDescription, per-metric score/achieved/maxPossible and tierInfo of the
\* result; and the result object redactResult was given is not modified.
C4_RedactIdempotentScorePreserving ==
    view # <<>> =>
        /\ redactResult(view[1]).ret = view[1]
        /\ view[1].totalScore = returned.totalScore
        /\ view[1].grade = returned.grade
        /\ view[1].gradeDescription = returned.gradeDescription
        /\ MetricNumbers(view[1]) = MetricNumbers(returned)
        /\ view[1].tierInfo = returned.tierInfo
        /\ result = returned

\* C4 witness: a result with findings and flags has been redacted, and the view
\* differs from it.
C4_Witness ==
    /\ view # <<>>
    /\ Len(returned.findings) >= 2
    /\ Len(returned.flags) >= 1
    /\ view[1] # returned

\* every finding a result carries: the flat list, each metric's findings and
\* each component's findings in the breakdown
AllFindings(r) ==
    {r.findings[i] : i \in 1..Len(r.findings)}
    \cup UNION {{r.metrics[id].findings[i] : i \in 1..Len(r.metrics[id].findings)} :
                    id \in DOMAIN r.metrics}
    \cup UNION {UNION {{r.metrics[id].components[c].findings[i] :
                            i \in 1..Len(r.metrics[id].components[c].findings)} :
                        c \in DOMAIN r.metrics[id].components} :
                    id \in DOMAIN r.metrics}

\* every flag string a result carries: result-level and component-level
AllFlags(r) ==
    {r.flags[i] : i \in 1..Len(r.flags)}
    \cup UNION {UNION {{r.metrics[id].components[c].flags[i] :
                            i \in 1..Len(r.metrics[id].components[c].flags)} :
                        c \in DOMAIN r.metrics[id].components} :
                    id \in DOMAIN r.metrics}

\* C5: after redactResult no detailed text remains: every finding of the view
\* (flat, per metric, per component) has the generic description and
\* recommendation, and every flag (result-level, component-level) is the
\* generic flag.
C5_NoDetailAfterRedaction ==
    view # <<>> =>
        /\ \A x \in AllFindings(view[1]) :
              x.description = REDACTION_MESSAGE /\ x.recommendation = REDACTION_MESSAGE
        /\ \A x \in AllFlags(view[1]) : x = REDACTED_FLAG

\* C6: redactResult keeps the shape of the issue list: as many findings and
\* flags as the result, in the same order, each finding with its severity,
\* category and title.
C6_RedactKeepsShape ==
    view # <<>> =>
        /\ Len(view[1].findings) = Len(returned.findings)
        /\ Len(view[1].flags) = Len(returned.flags)
        /\ \A i \in 1..Len(returned.findings) :
              /\ view[1].findings[i].severity = returned.findings[i].severity
              /\ view[1].findings[i].category = returned.findings[i].category
              /\ view[1].findings[i].title = returned.findings[i].title

\* C6 witness: a result with exactly three findings, of different severities,
\* has been redacted.
C6_Witness ==
    /\ view # <<>>
    /\ Len(returned.findings) = 3
    /\ Len(returned.flags) >= 1
    /\ returned.findings[1].severity # returned.findings[3].severity
    /\ \A i \in 1..3 : view[1].findings[i].description = REDACTION_MESSAGE

\* the tier a metric's tiered rules are read against
RelevantTierOf(metric) ==
    IF metric.fdvDependent THEN returned.tierInfo.fdvTier
    ELSE IF metric.exchangeDependent THEN returned.tierInfo.exchangeTier
    ELSE ""

IsTiered(rule) == rule.tier # "" /\ rule.ranges # <<>>

\* the least element of a set of indices, 0 for the empty set
Least(S) == IF S = {} THEN 0 ELSE CHOOSE i \in S : \A j \in S : i <= j

\* rule `rule` of a component matches the facts of the latest invocation
ComponentRuleMatches(rule, tier, id) ==
    IF IsTiered(rule)
    THEN /\ rule.tier = tier
         /\ \/ Get(facts, id) = JsNull
            \/ \E k \in 1..Len(rule.ranges) : JsLeq(Get(facts, id), rule.ranges[k].max)
    ELSE rule.condition.kind # "none" /\ RunExpression(rule.condition, facts) = "true"

\* rule `rule` of a flat metric matches the facts of the latest invocation
FlatRuleMatches(rule) ==
    rule.condition.kind # "none" /\ RunExpression(rule.condition, facts) = "true"

\* what the rule at index a of a rule list, and it alone, gives a component
OnlyRuleDecides(rules, a, id, got) ==
    LET rule == rules[a]
        fits == Least({k \in 1..Len(rule.ranges) : JsLeq(Get(facts, id), rule.ranges[k].max)})
    IN  IF IsTiered(rule)
        THEN /\ got.score = IF Get(facts, id) = JsNull THEN 0 ELSE rule.ranges[fits].score
             /\ got.findings = <<>>
        ELSE /\ got.score = rule.score
             /\ Len(got.findings) = Len(rule.finding)
             /\ \A n \in 1..Len(got.findings) :
                   /\ got.findings[n].title = rule.finding[n].title
                   /\ got.findings[n].description = rule.finding[n].description
             /\ got.flags = IF rule.description = "" THEN <<>>
                            ELSE <<Flag("", rule.description)>>

\* C7: first-match-wins.  The rule applied to a component, or to a metric
\* without components, is the first rule in declared order that matches, and
\* the score, findings and flags are those of that rule alone, whatever later
\* rules match or carry more points.
C7_FirstMatchWins ==
    Returned =>
        \A i \in 1..Len(metrics.metrics) :
            LET metric == metrics.metrics[i]
                am == audit.metrics[i]
                firstFlat == Least({n \in 1..Len(metric.scoring) :
                                        FlatRuleMatches(metric.scoring[n])})
            IN  /\ \A j \in 1..Len(metric.components) :
                      LET c == metric.components[j]
                          first == Least({n \in 1..Len(c.scoring) :
                                            ComponentRuleMatches(c.scoring[n],
                                                RelevantTierOf(metric), c.id)})
                      IN  /\ am.components[j].applied = first
                          /\ first # 0 =>
                                OnlyRuleDecides(c.scoring, first, c.id, am.components[j])
                /\ (Len(metric.components) = 0 /\ Len(metric.scoring) > 0) =>
                      /\ am.applied = firstFlat
                      /\ firstFlat # 0 =>
                            /\ am.achieved =
                                  metric.scoring[firstFlat].score * Weight(metric.weight)
                            /\ Len(am.findings) = Len(metric.scoring[firstFlat].finding)
                            /\ \A n \in 1..Len(am.findings) :
                                  am.findings[n].title =
                                      metric.scoring[firstFlat].finding[n].title

\* C7 witness: rule order [specific condition, catch-all], facts that match
\* only the catch-all, and the catch-all's points applied to the component and
\* to the flat metric.
C7_Witness ==
    /\ Returned
    /\ metrics = Rubric(<<SpecificRule, CatchAllRule>>)
    /\ Get(facts, "noticePeriodDays") = Num(200)
    /\ audit.metrics[1].components[1].score = CatchAllRule.score
    /\ audit.metrics[2].achieved = CatchAllRule.score * 2

\* C8: scoreAgreement never raises an exception to the caller: every
\* invocation, on any facts record and with rules whose conditions cannot be
\* evaluated, ends by returning a ScoringResult with every metric scored.
C8_NeverThrows ==
    /\ outcome # "threw"
    /\ Returned => DOMAIN result.metrics = MetricIds

\* C8 witness: a facts record with every field null or absent was scored by a
\* rubric whose first rule of the list throws on it, and a result came back.
C8_Witness ==
    /\ Returned
    /\ \A key \in DOMAIN facts : facts[key].t \in {"null", "undefined"}
    /\ metrics.metrics[1].components[1].scoring[1] = ThrowingRule
    /\ RunExpression(ThrowingRule.condition, facts) = "throw"

Unevaluable(condition) == RunExpression(condition, facts) = "throw"

RECURSIVE TotalAfter(_, _)
\* the total after the adjustments of the downgrade rules whose condition is
\* true on the facts, in declared order, each result held at 0 or above
TotalAfter(downgrades, total) ==
    IF downgrades = <<>> THEN total
    ELSE TotalAfter(Tail(downgrades),
            IF RunExpression(Head(downgrades).condition, facts) = "true"
            THEN [num |-> Max2(0, total.num + Head(downgrades).adjustment * total.den),
                  den |-> total.den]
            ELSE total)

ResultFlags == {result.flags[n] : n \in 1..Len(result.flags)}

RedFlagRules ==
    {metrics.redFlags.critical[n] : n \in 1..Len(metrics.redFlags.critical)}
    \cup {metrics.redFlags.major[n] : n \in 1..Len(metrics.redFlags.major)}

\* C9: condition evaluation fails closed.  A rule whose condition cannot be
\* evaluated is never the rule applied, so no points, finding or flag come
\* from it, and evaluation goes on: a later rule that matches is applied,
\* every metric is scored, and the auto-downgrades and red flags whose
\* condition is true are applied, those that cannot be evaluated are not.
C9_ConditionsFailClosed ==
    Returned =>
        /\ DOMAIN result.metrics = MetricIds
        /\ \A i \in 1..Len(metrics.metrics) :
              LET metric == metrics.metrics[i]
                  am == audit.metrics[i]
              IN  /\ \A j \in 1..Len(metric.components) :
                        LET rules == metric.components[j].scoring
                            a == am.components[j].applied
                        IN  /\ (a # 0 /\ ~IsTiered(rules[a])) =>
                                  ~Unevaluable(rules[a].condition)
                            /\ (\E n \in 1..Len(rules) :
                                    ComponentRuleMatches(rules[n], RelevantTierOf(metric),
                                        metric.components[j].id))
                                  => a # 0
                  /\ (Len(metric.components) = 0 /\ Len(metric.scoring) > 0) =>
                        /\ am.applied # 0 => ~Unevaluable(metric.scoring[am.applied].condition)
                        /\ (\E n \in 1..Len(metric.scoring) :
                                FlatRuleMatches(metric.scoring[n])) => am.applied # 0
        /\ audit.adjustedTotal = TotalAfter(metrics.autoDowngrades, audit.rawTotal)
        /\ \A n \in 1..Len(metrics.autoDowngrades) :
              DowngradeFlag(metrics.autoDowngrades[n].condition) \in ResultFlags
                  <=> RunExpression(metrics.autoDowngrades[n].condition, facts) = "true"
        /\ \A flag \in RedFlagRules :
              Flag("", flag.description) \in ResultFlags
                  <=> RunExpression(flag.condition, facts) = "true"

\* C9 witness: the first rule of a component cannot be evaluated on the facts,
\* the rule after it was applied, and an auto-downgrade and a red flag declared
\* after a malformed one were applied.
C9_Witness ==
    /\ Returned
    /\ Unevaluable(metrics.metrics[1].components[1].scoring[1].condition)
    /\ audit.metrics[1].components[1].applied = 2
    /\ Unevaluable(metrics.autoDowngrades[2].condition)
    /\ DowngradeFlag(metrics.autoDowngrades[3].condition) \in ResultFlags
    /\ Unevaluable(metrics.redFlags.critical[2].condition)
    /\ Flag("", metrics.redFlags.major[1].description) \in ResultFlags

HasMissingDataFlag(flags) == \E n \in 1..Len(flags) : flags[n].prefix = "Missing data: "

\* every component of the rubric, with its metric: <<i, j>>
ComponentIndices ==
    {<<i, j>> \in (1..Len(metrics.metrics)) \X (1..2) :
        j <= Len(metrics.metrics[i].components)}

\* C10 (as claimed): when every governing field is null, every component has
\* score 0 before snapping and a "Missing data" flag, whatever its rules.
C10_NullGoverningScoresZero ==
    (Returned /\ \A ij \in ComponentIndices :
                    Get(facts, metrics.metrics[ij[1]].components[ij[2]].id) = JsNull)
    => \A ij \in ComponentIndices :
          /\ audit.metrics[ij[1]].components[ij[2]].score = 0
          /\ HasMissingDataFlag(audit.metrics[ij[1]].components[ij[2]].flags)

\* C10 (amended): a component whose governing field is null has score 0 before
\* snapping and a "Missing data" flag unless one of its condition rules is true
\* on the facts before a tiered rule of the resolved tier is reached; then it
\* has that rule's score and no "Missing data" flag.
C10_NullGoverningUnlessRuleMatches ==
    Returned =>
        \A ij \in ComponentIndices :
            LET metric == metrics.metrics[ij[1]]
                c == metric.components[ij[2]]
                got == audit.metrics[ij[1]].components[ij[2]]
                firstTrue == Least({n \in 1..Len(c.scoring) :
                                /\ ~IsTiered(c.scoring[n])
                                /\ c.scoring[n].condition.kind # "none"
                                /\ RunExpression(c.scoring[n].condition, facts) = "true"})
                firstTier == Least({n \in 1..Len(c.scoring) :
                                /\ IsTiered(c.scoring[n])
                                /\ c.scoring[n].tier = RelevantTierOf(metric)})
            IN  Get(facts, c.id) = JsNull =>
                    IF firstTrue = 0 \/ (firstTier # 0 /\ firstTier < firstTrue)
                    THEN got.score = 0 /\ HasMissingDataFlag(got.flags)
                    ELSE /\ got.score = c.scoring[firstTrue].score
                         /\ ~HasMissingDataFlag(got.flags)

\* C10 witness: every governing field is null, no rule of the first component
\* matches, and it has score 0 and the flag.
C10_Witness ==
    /\ Returned
    /\ \A ij \in ComponentIndices :
          Get(facts, metrics.metrics[ij[1]].components[ij[2]].id) = JsNull
    /\ metrics.metrics[1].components[1].scoring = <<SpecificRule, ThrowingRule>>
    /\ audit.metrics[1].components[1].applied = 0
    /\ audit.metrics[1].components[1].score = 0
    /\ HasMissingDataFlag(audit.metrics[1].components[1].flags)

IsDowngradeFlag(flag) == flag.prefix = "Auto-downgrade applied: "

RECURSIVE ExpectedDowngradeFlags(_)
\* one audit flag for each downgrade rule whose condition is true, in declared order
ExpectedDowngradeFlags(downgrades) ==
    IF downgrades = <<>> THEN <<>>
    ELSE (IF RunExpression(Head(downgrades).condition, facts) = "true"
          THEN <<DowngradeFlag(Head(downgrades).condition)>> ELSE <<>>)
         \o ExpectedDowngradeFlags(Tail(downgrades))

\* C11: the adjustment pass.  Every auto-downgrade rule whose condition is true
\* adds its adjustment to the total, in declared order and held at 0 or above
\* after each rule, and records exactly one audit flag; a rule whose condition
\* is false changes nothing.  The total after the pass is never below 0 and is
\* not capped at 100; a total of 90 with one true rule of -15 becomes 75.
C11_AdjustmentPass ==
    Returned =>
        /\ audit.adjustedTotal = TotalAfter(metrics.autoDowngrades, audit.rawTotal)
        /\ audit.adjustedTotal.num >= 0
        /\ SelectSeq(result.flags, IsDowngradeFlag)
              = ExpectedDowngradeFlags(metrics.autoDowngrades)
        /\ (\A n \in 1..Len(metrics.autoDowngrades) :
                RunExpression(metrics.autoDowngrades[n].condition, facts) # "true")
              => audit.adjustedTotal = audit.rawTotal
        /\ RunExpression(metrics.autoDowngrades[1].condition, facts) = "true"
              => /\ applyDowngrades(<<metrics.autoDowngrades[1]>>, facts,
                        [num |-> 90, den |-> 1]).total = [num |-> 75, den |-> 1]
                 /\ applyDowngrades(<<metrics.autoDowngrades[1]>>, facts,
                        [num |-> 10, den |-> 1]).total = [num |-> 0, den |-> 1]
        /\ RunExpression(metrics.autoDowngrades[3].condition, facts) = "true"
              => applyDowngrades(<<metrics.autoDowngrades[3]>>, facts,
                    [num |-> 90, den |-> 1]).total = [num |-> 120, den |-> 1]

\* C11 witness: a negative and a positive adjustment were both applied, after
\* and before a rule that was not, and the adjusted total is above 100.
C11_Witness ==
    /\ Returned
    /\ Len(SelectSeq(result.flags, IsDowngradeFlag)) = 2
    /\ audit.adjustedTotal.num > 100 * audit.adjustedTotal.den
    /\ audit.adjustedTotal.num = audit.rawTotal.num + 15 * audit.rawTotal.den

\* C12: in every returned ScoringResult no displayed sub-score is a literal 0 or
\* its literal maximum: the achieved value of every metric, and the score of
\* every component in a metric's breakdown, is neither 0 nor its maxPossible.
C12_NoLiteralZeroOrMaximum ==
    Returned =>
        \A id \in DOMAIN result.metrics :
            /\ result.metrics[id].achieved \notin {0, result.metrics[id].maxPossible}
            /\ \A cid \in DOMAIN result.metrics[id].components :
                  result.metrics[id].components[cid].score
                      \notin {0, result.metrics[id].components[cid].maxPossible}

\* the place of a grade in the rating scale: the index of its band, and one
\* past the last band when no band was assigned
BandRank(grade) ==
    LET scale == metrics.ratingScale
        at == {k \in 1..Len(scale) : scale[k].grade = grade}
    IN  IF grade = "" \/ at = {} THEN Len(scale) + 1 ELSE Least(at)

\* C13: grade mapping is monotonic in the final score.  Of two totals graded
\* against the same rating scale, the higher one is never assigned a band later
\* in the scale than the band of the lower one.
C13_GradeMonotonic ==
    (outcome = "returned" /\ refResult # <<>>) =>
        /\ result.totalScore > refResult[1].totalScore
              => BandRank(result.grade) <= BandRank(refResult[1].grade)
        /\ result.totalScore < refResult[1].totalScore
              => BandRank(result.grade) >= BandRank(refResult[1].grade)

\* C13 witness: two totals graded against the ordered four-band scale fall in
\* different bands, the higher total in the earlier band.
C13_Witness ==
    /\ outcome = "returned"
    /\ refResult # <<>>
    /\ Len(metrics.ratingScale) = 4
    /\ result.totalScore = 61
    /\ refResult[1].totalScore = 59
    /\ result.grade = "B"
    /\ refResult[1].grade = "C"

\* the lowest-capability tier of each axis: the valuation tier with the least
\* minimum, and the last exchange tier
LowestFdvTier ==
    LET tiers == metrics.fdvTiers
    IN  tiers[CHOOSE i \in 1..Len(tiers) : \A k \in 1..Len(tiers) : tiers[i].min <= tiers[k].min].id

LowestExchangeTier == metrics.exchangeTiers[Len(metrics.exchangeTiers)].id

\* the configured tier with the given id has the given label
IsTierOf(tiers, id, label) ==
    /\ Cardinality({i \in 1..Len(tiers) : tiers[i].id = id}) = 1
    /\ \E i \in 1..Len(tiers) : tiers[i].id = id /\ tiers[i].label = label
    /\ label # ""

\* C14: tier resolution is total.  For every valuation (number, null or
\* absent) and every exchange name (string, null, absent or not configured)
\* exactly one configured tier with a non-empty label is returned per axis; an
\* absent valuation and an absent or unmatched exchange resolve to the
\* lowest-capability tier of their axis, and a valuation or exchange that a
\* tier covers resolves to the first tier that covers it.
C14_TierResolutionTotal ==
    (outcome = "returned" /\ "fdv" \in DOMAIN facts) =>
        LET info == result.tierInfo
            fdv == Get(facts, "fdv")
            exchange == Get(facts, "exchange")
            covering == {i \in 1..Len(metrics.fdvTiers) :
                            /\ fdv.t = "number"
                            /\ fdv.n >= metrics.fdvTiers[i].min
                            /\ \/ metrics.fdvTiers[i].max = Infinity
                               \/ fdv.n <= metrics.fdvTiers[i].max}
            listing == {i \in 1..Len(metrics.exchangeTiers) :
                            /\ exchange.t = "string"
                            /\ exchange.s \in metrics.exchangeTiers[i].exchanges}
        IN  /\ IsTierOf(metrics.fdvTiers, info.fdvTier, info.fdvTierLabel)
            /\ IsTierOf(metrics.exchangeTiers, info.exchangeTier, info.exchangeTierLabel)
            /\ covering = {} => info.fdvTier = LowestFdvTier
            /\ covering # {} => info.fdvTier = metrics.fdvTiers[Least(covering)].id
            /\ listing = {} => info.exchangeTier = LowestExchangeTier
            /\ listing # {} => info.exchangeTier = metrics.exchangeTiers[Least(listing)].id

\* C14 witness: an absent valuation and an exchange that no tier lists were
\* resolved to the lowest tiers.
C14_Witness ==
    /\ outcome = "returned"
    /\ "fdv" \in DOMAIN facts
    /\ Get(facts, "fdv") = JsUndefined
    /\ Get(facts, "exchange") = Str("Kraken")
    /\ result.tierInfo.fdvTier = "MicroCap"
    /\ result.tierInfo.exchangeTier = "Tier3"
    /\ result.tierInfo.exchangeTierLabel = "Tier 3"

\* the minimal validity of a configuration: a non-empty rating scale that ends
\* in a band of minimum 0, and no empty scoring list
ValidConfiguration(m) ==
    /\ Len(m.ratingScale) > 0
    /\ m.ratingScale[Len(m.ratingScale)].min = 0
    /\ \A i \in 1..Len(m.metrics) :
          /\ \A j \in 1..Len(m.metrics[i].components) :
                Len(m.metrics[i].components[j].scoring) > 0
          /\ Len(m.metrics[i].components) = 0 => Len(m.metrics[i].scoring) > 0

\* C15: configuration errors are fatal at load time.  With a rating scale that
\* is empty or does not end in a band of minimum 0, or with an empty scoring
\* list, the engine does not start: no ScoringResult is produced.
C15_InvalidConfigurationNeverScores ==
    Returned => ValidConfiguration(metrics)

\* analyses tracked in the usage period, and analyses performed: those tracked
\* and those whose review is stored but not yet tracked
Tracked == IF subscription.status = "active" THEN subscription.usedFileAnalyses ELSE usageLog

Performed == Tracked + Cardinality({r \in DOMAIN requests : requests[r].pc = "saved"})

FileAnalysisLimit ==
    IF subscription.status = "active" THEN subscription.maxFileAnalyses
    ELSE FREE_FILE_ANALYSES

\* C16: usage limits cannot be bypassed.  For a user with a finite limit L the
\* number of analyses performed and tracked within the usage period never
\* exceeds L under any interleaving of analyze requests, and a request
\* answered 403 has run no analysis.
C16_UsageNeverExceedsLimit ==
    (requests # <<>> /\ FileAnalysisLimit # Unlimited) =>
        /\ Tracked <= FileAnalysisLimit
        /\ Performed <= FileAnalysisLimit
        /\ \A r \in DOMAIN requests :
              requests[r].status = 403 => requests[r].scoringResult = <<>>

\* the scoring result inside a returned content, of either shape
ScoresOf(content) ==
    IF "scoringResult" \in DOMAIN content THEN content.scoringResult ELSE content

\* a returned content carries nothing detailed: no extracted facts, and no
\* finding or flag text other than the generic messages
NothingDetailed(content) ==
    /\ "extractedFacts" \in DOMAIN content => content.extractedFacts = FACTS_MESSAGE
    /\ \A x \in AllFindings(ScoresOf(content)) :
          x.description = REDACTION_MESSAGE /\ x.recommendation = REDACTION_MESSAGE
    /\ \A x \in AllFlags(ScoresOf(content)) : x = REDACTED_FLAG

\* C17: unentitled viewers never receive detailed analysis data.  When the
\* user (for a shared link, the owner of the file) has no active subscription,
\* no response of analyzeFile, getAllFiles, getReviewsByFileId or
\* getSharedContent carries the extracted facts or unredacted finding text of
\* a review, whichever shape the stored content has.
C17_UnentitledNeverSeeDetail ==
    (response # NoResponse /\ ~IsPro) =>
        \A i \in 1..Len(response.body) : NothingDetailed(response.body[i])

\* the extracted facts alone: no response to an unentitled viewer carries them
FactsNeverReturned ==
    (response # NoResponse /\ ~IsPro) =>
        \A i \in 1..Len(response.body) :
            "extractedFacts" \in DOMAIN response.body[i]
                => response.body[i].extractedFacts = FACTS_MESSAGE

\* the greatest element of a non-empty set of numbers
Greatest(S) == CHOOSE x \in S : \A y \in S : y <= x

\* what C18 states as the maximum of a component: the greatest range score of
\* its tiered rules of the relevant tier and the greatest point value of its
\* rules without a tier (0 when there is neither)
StatedComponentMax(metric, component) ==
    LET rules == component.scoring
        tiered == {n \in 1..Len(rules) :
                      IsTiered(rules[n]) /\ rules[n].tier = RelevantTierOf(metric)}
        untiered == {n \in 1..Len(rules) : rules[n].tier = ""}
    IN  Greatest({0}
            \cup {rules[n].ranges[k].score : <<n, k>> \in
                    {nk \in tiered \X (1..2) : nk[2] <= Len(rules[nk[1]].ranges)}}
            \cup {rules[n].score : n \in untiered})

\* C18: a component's maxPossible is the larger of the greatest range score of
\* its tiered rules of the metric's relevant tier and the greatest point value
\* of its rules without a tier; rules of other tiers never contribute, and the
\* score its rules award never exceeds this maximum.
C18_ComponentMaximum ==
    Returned =>
        \A ij \in ComponentIndices :
            LET metric == metrics.metrics[ij[1]]
                scored == audit.metrics[ij[1]].components[ij[2]]
            IN  /\ scored.maxPossible = StatedComponentMax(metric, metric.components[ij[2]])
                /\ scored.score <= scored.maxPossible

\* the first half of C18 alone: maxPossible is the stated maximum
ComponentMaximumAsStated ==
    Returned =>
        \A ij \in ComponentIndices :
            audit.metrics[ij[1]].components[ij[2]].maxPossible
                = StatedComponentMax(metrics.metrics[ij[1]],
                                     metrics.metrics[ij[1]].components[ij[2]])

\* the metrics scored directly from their own rule list
FlatMetricIndices ==
    {i \in 1..Len(metrics.metrics) :
        Len(metrics.metrics[i].components) = 0 /\ Len(metrics.metrics[i].scoring) > 0}

\* C19: for a metric scored directly from its own rule list, maxPossible does
\* not depend on the facts: it is the metric weight times the largest point
\* value among all of the metric's rules, whichever rule (first, last or none)
\* matched.
C19_FlatMaximumIndependentOfFacts ==
    Returned =>
        \A i \in FlatMetricIndices :
            audit.metrics[i].maxPossible =
                Weight(metrics.metrics[i].weight)
                    * Greatest({0} \cup {metrics.metrics[i].scoring[n].score :
                                            n \in 1..Len(metrics.metrics[i].scoring)})

\* the metrics scored through their components
ComponentMetricIndices ==
    {i \in 1..Len(metrics.metrics) : Len(metrics.metrics[i].components) > 0}

\* the sum, over the components of metric i, of `field` times the
\* component's weight (weight ?? 1)
WeightedSum(i, field) ==
    Sum([j \in 1..Len(metrics.metrics[i].components) |->
            audit.metrics[i].components[j][field]
                * Weight(metrics.metrics[i].components[j].weight)])

\* C20: before snapping, a metric with components has achieved = the sum of
\* component score x component weight, maxPossible = the sum of component
\* maximum x component weight, and percentage achieved / maxPossible * 100,
\* or 0 when maxPossible is 0.
C20_ComponentAggregation ==
    Returned =>
        \A i \in ComponentMetricIndices :
            LET m == audit.metrics[i]
            IN  /\ m.achieved = WeightedSum(i, "score")
                /\ m.maxPossible = WeightedSum(i, "maxPossible")
                /\ m.maxPossible # 0 => m.score.num * m.maxPossible = 100 * m.achieved * m.score.den
                /\ m.maxPossible = 0 => m.score.num = 0

\* C20 witness: the first metric adds a component of weight 2 and one of
\* default weight, both with a positive score, and the third metric has
\* maxPossible 0 and percentage 0.
C20_Witness ==
    /\ Returned
    /\ audit.metrics[1].components[1].score > 0
    /\ audit.metrics[1].components[2].score > 0
    /\ audit.metrics[1].achieved
          = 2 * audit.metrics[1].components[1].score + audit.metrics[1].components[2].score
    /\ audit.metrics[1].achieved < audit.metrics[1].maxPossible
    /\ audit.metrics[3].maxPossible = 0
    /\ audit.metrics[3].score.num = 0

\* the sum of a field of the metrics' values before snapping
MetricSum(field) == Sum([i \in 1..Len(audit.metrics) |-> audit.metrics[i][field]])

\* C21: the raw engine total, before the adjustment pass and snapping, is the
\* sum of the metrics' achieved points before snapping divided by the sum of
\* their maxPossible points, times 100, and 0 when the sum of maxPossible is 0.
C21_RawTotal ==
    Returned =>
        /\ MetricSum("maxPossible") > 0 =>
              audit.rawTotal.num * MetricSum("maxPossible")
                  = 100 * MetricSum("achieved") * audit.rawTotal.den
        /\ MetricSum("maxPossible") = 0 => audit.rawTotal.num = 0

\* C21 witness: three metrics with different positive achieved points, two of
\* them with a positive maximum, and a total strictly between 0 and 100.
C21_Witness ==
    /\ Returned
    /\ Len(audit.metrics) = 3
    /\ audit.metrics[1].achieved > 0
    /\ audit.metrics[2].achieved > 0
    /\ audit.metrics[1].achieved # audit.metrics[2].achieved
    /\ audit.rawTotal.num > 0
    /\ audit.rawTotal.num < 100 * audit.rawTotal.den

\* the other case of C21: a result whose metrics have no possible points
RawTotalOfNothing ==
    /\ Returned
    /\ Len(audit.metrics) > 0
    /\ MetricSum("maxPossible") = 0
    /\ audit.rawTotal.num = 0

\* metric score b adds twice the achieved and maxPossible points of metric score a
AddsTwice(a, b) == b.achieved = 2 * a.achieved /\ b.maxPossible = 2 * a.maxPossible

\* the metric with its weight (weight ?? 1) doubled
WeightDoubled(metric) == [metric EXCEPT !.weight = 2 * Weight(@)]

\* C22: a metric's weight scales what the metric adds to the engine total in
\* the same way whether it has components or a flat rule list: scored on the
\* same facts with its weight doubled, any metric adds twice the achieved and
\* twice the maxPossible points.
C22_WeightScalesContribution ==
    Returned =>
        \A i \in 1..Len(metrics.metrics) :
            AddsTwice(
                scoreMetric(metrics.metrics[i], returned.tierInfo.fdvTier,
                            returned.tierInfo.exchangeTier, facts),
                scoreMetric(WeightDoubled(metrics.metrics[i]), returned.tierInfo.fdvTier,
                            returned.tierInfo.exchangeTier, facts))

\* the flat half of C22: metrics scored from their own rule list scale
FlatWeightScalesContribution ==
    Returned =>
        \A i \in FlatMetricIndices :
            AddsTwice(
                scoreMetric(metrics.metrics[i], returned.tierInfo.fdvTier,
                            returned.tierInfo.exchangeTier, facts),
                scoreMetric(WeightDoubled(metrics.metrics[i]), returned.tierInfo.fdvTier,
                            returned.tierInfo.exchangeTier, facts))

\* the display band of each enumerated ceiling: <<floor, cap>>
DisplayBand ==
    [max \in {100, 25, 20, 15, 10, 5} |->
        CASE max = 100 -> <<13, 85>>
          [] max = 25 -> <<6, 17>>
          [] max = 20 -> <<5, 16>>
          [] max = 15 -> <<4, 10>>
          [] max = 10 -> <<3, 7>>
          [] max = 5 -> <<2, 3>>]

Clamp(x, lo, hi) == IF x < lo THEN lo ELSE IF x > hi THEN hi ELSE x

\* C23: for the enumerated ceilings the snapped value is the rounded raw score
\* clamped to the ceiling's band: [13, 85] for 100, [6, 17] for 25, [5, 16] for
\* 20, [4, 10] for 15, [3, 7] for 10 and [2, 3] for 5; a rounded raw score
\* strictly inside the band is returned unchanged.
C23_EnumeratedCeilingsClamp ==
    (outcome = "returned" /\ result.max \in DOMAIN DisplayBand) =>
        LET band == DisplayBand[result.max]
        IN  /\ result.snapped = Clamp(Round(result.score), band[1], band[2])
            /\ (band[1] < Round(result.score) /\ Round(result.score) < band[2])
                  => result.snapped = Round(result.score)

\* C23 witness: on ceiling 25 a raw score of 5.5 rounds to 6 and stays 6, after
\* a raw score of 5 was raised to the floor 6.
C23_Witness ==
    /\ outcome = "returned"
    /\ refResult # <<>>
    /\ result.max = 25
    /\ result.score = [num |-> 11, den |-> 2]
    /\ result.snapped = 6
    /\ refResult[1].score = [num |-> 5, den |-> 1]
    /\ refResult[1].snapped = 6

\* the floor and the cap C24 states for a ceiling: max(1, round(15% of it)) and
\* floor(88% of it)
StatedFloor(max) == Max2(1, (15 * max + 50) \div 100)
StatedCap(max) == (88 * max) \div 100

\* C24: for any ceiling other than 100, 25, 20, 15, 10 and 5, every snapped
\* value lies between the floor max(1, round(15% of the ceiling)) and the cap
\* floor(88% of the ceiling), whatever the raw score.
C24_ProportionalBand ==
    (outcome = "returned" /\ result.max \notin DOMAIN DisplayBand) =>
        /\ StatedFloor(result.max) <= result.snapped
        /\ result.snapped <= StatedCap(result.max)

\* C24 on ceiling 30 alone, whose stated band is [5, 26]
ProportionalBandOfThirty ==
    (outcome = "returned" /\ result.max = 30) =>
        (5 <= result.snapped /\ result.snapped <= 26)

\* C25: snapping is monotone for a fixed ceiling: of two raw scores snapped
\* against the same ceiling, enumerated or not, the lower one is never
\* displayed above the higher one.
C25_SnappingMonotone ==
    (outcome = "returned" /\ refResult # <<>>) =>
        (refResult[1].score.num * result.score.den <= result.score.num * refResult[1].score.den
            => refResult[1].snapped <= result.snapped)

\* C25 on the enumerated ceilings alone
EnumeratedSnappingMonotone ==
    (outcome = "returned" /\ refResult # <<>> /\ result.max \in DOMAIN DisplayBand) =>
        (refResult[1].score.num * result.score.den <= result.score.num * refResult[1].score.den
            => refResult[1].snapped <= result.snapped)

\* the bands of the rating scale whose minimum the total of the result reaches
BandsReached == {k \in 1..Len(metrics.ratingScale) : metrics.ratingScale[k].min <= result.totalScore}

\* C26: the grade and gradeDescription of a result are those of the first
\* rating band, in declared order, whose minimum is <= the snapped total, both
\* from the same band; when the last band has minimum 0 a non-empty grade is
\* assigned.
C26_FirstBandReached ==
    outcome = "returned" =>
        /\ BandsReached # {} =>
              /\ result.grade = metrics.ratingScale[Least(BandsReached)].grade
              /\ result.gradeDescription = metrics.ratingScale[Least(BandsReached)].description
        /\ (/\ Len(metrics.ratingScale) > 0
            /\ metrics.ratingScale[Len(metrics.ratingScale)].min = 0)
              => result.grade # ""

\* C26 witness: against the scale declared as C (40), A (80), D (0) the total 85
\* gets the first band reached, C with its own description.
C26_Witness ==
    /\ outcome = "returned"
    /\ Len(metrics.ratingScale) = 3
    /\ metrics.ratingScale[1].min = 40
    /\ result.totalScore = 85
    /\ result.grade = "C"
    /\ result.gradeDescription = "Fair"

\* how many findings of the result come from a red-flag rule with this
\* description, and how many of them have this severity
RedFlagFindings(description) ==
    {n \in 1..Len(result.findings) :
        result.findings[n].metric = "redFlag" /\ result.findings[n].description = description}

RedFlagEntries(description) ==
    {n \in 1..Len(result.flags) : result.flags[n] = Flag("", description)}

\* a red-flag rule left exactly one finding of the severity and one flag when
\* its condition is true, and nothing when it is not
RedFlagYield(flag, severity) ==
    IF RunExpression(flag.condition, facts) = "true"
    THEN /\ Cardinality(RedFlagFindings(flag.description)) = 1
         /\ \A n \in RedFlagFindings(flag.description) : result.findings[n].severity = severity
         /\ Cardinality(RedFlagEntries(flag.description)) = 1
    ELSE RedFlagFindings(flag.description) = {} /\ RedFlagEntries(flag.description) = {}

\* C27: each critical (major) red-flag rule whose condition is true on the facts
\* yields exactly one Finding of severity Critical (High) and exactly one entry
\* in flags carrying the rule's description; a rule whose condition is false
\* yields neither; and red-flag processing changes no metric score and not the
\* total, which are those the metrics, rules and auto-downgrades alone give.
C27_RedFlagsOnlyReport ==
    Returned =>
        /\ \A n \in 1..Len(metrics.redFlags.critical) :
              RedFlagYield(metrics.redFlags.critical[n], "Critical")
        /\ \A n \in 1..Len(metrics.redFlags.major) :
              RedFlagYield(metrics.redFlags.major[n], "High")
        /\ \A i \in 1..Len(metrics.metrics) :
              audit.metrics[i] = scoreMetric(metrics.metrics[i], returned.tierInfo.fdvTier,
                                    returned.tierInfo.exchangeTier, facts)
        /\ audit.adjustedTotal = TotalAfter(metrics.autoDowngrades, audit.rawTotal)
        /\ result.totalScore = snapToDisplayScore(audit.adjustedTotal, 100)

\* C27 witness: the critical rule on a weak clawback and the major rule on a
\* notice period above 180 days are both true, and the result has a Critical
\* and a High red-flag finding and both descriptions among its flags.
C27_Witness ==
    /\ Returned
    /\ RunExpression(metrics.redFlags.critical[1].condition, facts) = "true"
    /\ RunExpression(metrics.redFlags.major[1].condition, facts) = "true"
    /\ \E n \in 1..Len(result.findings) :
          /\ result.findings[n].severity = "Critical"
          /\ result.findings[n].description = metrics.redFlags.critical[1].description
    /\ \E n \in 1..Len(result.findings) :
          /\ result.findings[n].severity = "High"
          /\ result.findings[n].description = metrics.redFlags.major[1].description
    /\ Flag("", metrics.redFlags.critical[1].description) \in ResultFlags
    /\ Flag("", metrics.redFlags.major[1].description) \in ResultFlags

\* the findings of the result filed by the built-in checks under a category
BuiltInFindings(category) ==
    {n \in 1..Len(result.findings) : result.findings[n].category = category}

\* the notice period of the facts is a number of days from lo to hi
NoticeWithin(lo, hi) ==
    /\ Get(facts, "windDownDefined") # JsUndefined
    /\ Get(facts, "noticePeriodDays").t = "number"
    /\ lo <= Get(facts, "noticePeriodDays").n
    /\ Get(facts, "noticePeriodDays").n <= hi

\* the one termination finding has this severity
TerminationSeverity(severity) ==
    /\ Cardinality(BuiltInFindings("Termination Rights")) = 1
    /\ \A n \in BuiltInFindings("Termination Rights") : result.findings[n].severity = severity

ResultFindings == {result.findings[n] : n \in 1..Len(result.findings)}

SeqRange(s) == {s[n] : n \in 1..Len(s)}

\* the finding of the rule applied to component j of metric i, if it has one
AppliedComponentFinding(i, j) ==
    LET metric == metrics.metrics[i]
        a == audit.metrics[i].components[j].applied
    IN  IF a = 0 THEN {}
        ELSE SeqRange(RuleFinding(metric.components[j].scoring[a], metric, metric.components[j].id))

\* the finding of the rule applied to the flat metric i, if it has one
AppliedFlatFinding(i) ==
    LET metric == metrics.metrics[i]
        a == audit.metrics[i].applied
    IN  IF a = 0 THEN {}
        ELSE SeqRange(RuleFinding(metric.scoring[a], metric, NoComponent))

\* the findings of the auto-downgrades whose condition is true on the facts
AppliedDowngradeFindings ==
    {createFinding(d.finding[1].severity, "Auto Downgrade", d.finding[1].title,
        d.finding[1].description, d.finding[1].recommendation, "system", NoComponent) :
        d \in {x \in SeqRange(metrics.autoDowngrades) :
                x.finding # <<>> /\ RunExpression(x.condition, facts) = "true"}}

\* C29: the flat findings list of a result contains every finding of the
\* built-in checks, the red-flag rules, the applied scoring rules and the applied
\* auto-downgrades, and recommendations contains every non-blank recommendation
\* text of those findings exactly once: no two of its entries are equal.
C29_FindingsAndRecommendations ==
    Returned =>
        /\ SeqRange(generateFindings(facts)) \subseteq ResultFindings
        /\ SeqRange(processRedFlags(facts).findings) \subseteq ResultFindings
        /\ \A ij \in ComponentIndices : AppliedComponentFinding(ij[1], ij[2]) \subseteq ResultFindings
        /\ \A i \in FlatMetricIndices : AppliedFlatFinding(i) \subseteq ResultFindings
        /\ AppliedDowngradeFindings \subseteq ResultFindings
        /\ \A x \in ResultFindings :
              NonBlank(x.recommendation) =>
                  Cardinality({n \in 1..Len(result.recommendations) :
                                  result.recommendations[n] = x.recommendation}) = 1
        /\ \A n, m \in 1..Len(result.recommendations) :
              n # m => result.recommendations[n] # result.recommendations[m]

\* C29 witness: the result has a built-in finding, a red-flag finding, a rule
\* finding and a downgrade finding, and two of its findings share one
\* recommendation text.
C29_Witness ==
    /\ Returned
    /\ generateFindings(facts) # <<>>
    /\ processRedFlags(facts).findings # <<>>
    /\ AppliedDowngradeFindings # {}
    /\ \E ij \in ComponentIndices : AppliedComponentFinding(ij[1], ij[2]) # {}
    /\ \E n, m \in 1..Len(result.findings) :
          /\ n # m
          /\ result.findings[n].recommendation = result.findings[m].recommendation

\* the calls of checkUsageLimit made so far that reset the counters
ResettingChecks == {n \in DOMAIN requests : requests[n].reset}

\* the end of the billing period a time lies in; a period ends, as
\* checkUsageLimit's strict comparison has it, with its last instant included
PeriodOf(t) == IF t = 0 THEN PeriodLength ELSE (((t - 1) \div PeriodLength) + 1) * PeriodLength

SamePeriod(n, m) == PeriodOf(requests[n].at) = PeriodOf(requests[m].at)

\* C30: for an active subscription with a finite limit the usage counters are
\* reset at most once per billing period: after checkUsageLimit resets them,
\* usageResetAt lies in the future, so no two checks of one billing period
\* reset them, and a user refused for having used up the limit is not admitted
\* again before a new period starts.
C30_ResetOncePerPeriod ==
    (requests # <<>> /\ stripe # NoStripe) =>
        /\ \A n \in ResettingChecks : requests[n].usageResetAt > requests[n].at
        /\ \A n, m \in ResettingChecks : SamePeriod(n, m) => n = m
        /\ \A n, m \in DOMAIN requests :
              (n < m /\ SamePeriod(n, m) /\ requests[n].status = 403)
                  => requests[m].status = 403

\* the parts of C30 one by one
ResetLeavesFutureDate ==
    (requests # <<>> /\ stripe # NoStripe) =>
        \A n \in ResettingChecks : requests[n].usageResetAt > requests[n].at

NoTwoResettingChecksInAPeriod ==
    (requests # <<>> /\ stripe # NoStripe) =>
        \A n, m \in ResettingChecks : SamePeriod(n, m) => n = m

RefusedUntilNextPeriod ==
    (requests # <<>> /\ stripe # NoStripe) =>
        \A n, m \in DOMAIN requests :
            (n < m /\ SamePeriod(n, m) /\ requests[n].status = 403)
                => requests[m].status = 403

====
